---------------------------- MODULE Spec2Model ----------------------------
(***************************************************************************)
(* Coastal Threat Alert System: alert evaluation and notification          *)
(* dispatch (backend/app/services/alert_service.py,                        *)
(* backend/app/services/notification_service.py) and the authentication    *)
(* dependency of the routers (backend/app/routers).                        *)
(*                                                                         *)
(* The database session is modelled as a store of records that carry the   *)
(* attributes the services read and write.  Numbers with a fractional part *)
(* are scaled to integers: severity values and cutoffs are in hundredths   *)
(* (0.4 -> 40, 2.5 -> 250), coordinates are in hundredths of a degree,     *)
(* times are in minutes.                                                   *)
(***************************************************************************)
EXTENDS Integers, Sequences, FiniteSets, TLC

VARIABLES
    sev_call,       \* the pending or finished call of _calculate_severity
    now,            \* datetime.utcnow(), in minutes
    users,          \* users joined with their locations and preferences
    alerts,         \* the alerts table, in insertion order
    history,        \* the alert_history table
    notifications,  \* the alert_notifications table
    metrics,        \* the alert_metrics table
    result,         \* what the last service call returned
    stations,       \* the monitoring_stations table
    tide_data,      \* per station, its latest tide_data row
    weather_data,   \* per station, its latest weather_data row
    mon_pos,        \* the monitoring loop's position in its list of stations
    mon_check,      \* the check _check_alert_conditions makes next, 1 to 4
    active_monitoring,  \* AlertService.active_monitoring
    monitoring_task,    \* AlertService.monitoring_task: a task id or None
    tasks,              \* the asyncio tasks create_task has made
    stop_awaits,        \* the tasks that calls of stop_real_time_monitoring await
    monitoring_result,  \* what the last start or stop call returned
    supabase_ready,     \* auth_service.supabase is not None
    request,            \* the HTTP request being served
    app_version,        \* counts the state changes request handlers made
    auth_now,           \* datetime.utcnow() of the authentication service
    auth_users,         \* the users table, in insertion order
    user_preferences,   \* the user_preferences table
    user_sessions,      \* the user_sessions table, in insertion order
    auth_call,          \* the last call of the authentication service
    auth_result,        \* what that call returned
    manual_check        \* the running or finished call of trigger_manual_check

sevVars == <<sev_call>>
dbVars == <<now, users, alerts, history, notifications, metrics, result>>
monVars == <<stations, tide_data, weather_data, mon_pos, mon_check>>
taskVars == <<active_monitoring, monitoring_task, tasks, stop_awaits,
              monitoring_result>>
httpVars == <<supabase_ready, request, app_version>>
authVars == <<auth_now, auth_users, user_preferences, user_sessions, auth_call,
              auth_result>>
manualVars == <<manual_check>>
vars == <<sev_call, now, users, alerts, history, notifications, metrics, result,
          stations, tide_data, weather_data, mon_pos, mon_check,
          active_monitoring, monitoring_task, tasks, stop_awaits,
          monitoring_result, supabase_ready, request, app_version,
          auth_now, auth_users, user_preferences, user_sessions, auth_call,
          auth_result, manual_check>>

-----------------------------------------------------------------------------
(* Generic helpers                                                         *)

\* dict.get(key, default) of Python
Get(d, k, default) == IF k \in DOMAIN d THEN d[k] ELSE default

EmptyDict == [k \in {} |-> 0]

Range(s) == {s[i] : i \in DOMAIN s}

-----------------------------------------------------------------------------
(* Severity classification                                                 *)

\* AlertService.__init__: the cutoff table, in hundredths
alert_thresholds ==
    [flood |-> [low |-> 20,  medium |-> 40,  high |-> 70,  critical |-> 90],
     tide  |-> [low |-> 200, medium |-> 250, high |-> 300, critical |-> 350],
     wave  |-> [low |-> 200, medium |-> 300, high |-> 400, critical |-> 500],
     storm |-> [low |-> 30,  medium |-> 60,  high |-> 80,  critical |-> 100]]

severity_levels == <<"low", "medium", "high", "critical">>

\* severity_levels.index(severity)
SeverityIndex(s) == CHOOSE i \in DOMAIN severity_levels : severity_levels[i] = s

\* the key of the values dict that _calculate_severity reads for a type
SeverityValueKey(alert_type) ==
    CASE alert_type = "flood" -> "flood_probability"
      [] alert_type = "tide"  -> "tide_level"
      [] alert_type = "wave"  -> "wave_height"
      [] alert_type = "storm" -> "storm_intensity"
      [] OTHER -> "none"

\* the same classification with strict comparisons (a value equal to a
\* cutoff falls into the lower level)
_calculate_severity_strict(alert_type, values) ==
    IF alert_type \notin DOMAIN alert_thresholds
    THEN "medium"
    ELSE LET thresholds == alert_thresholds[alert_type]
             value == Get(values, SeverityValueKey(alert_type), 0)
         IN  IF value > thresholds.critical THEN "critical"
             ELSE IF value > thresholds.high THEN "high"
             ELSE IF value > thresholds.medium THEN "medium"
             ELSE "low"

\* AlertService._calculate_severity
_calculate_severity(alert_type, values) ==
    IF alert_type \notin DOMAIN alert_thresholds
    THEN "medium"
    ELSE LET thresholds == alert_thresholds[alert_type]
             value == Get(values, SeverityValueKey(alert_type), 0)
         IN  IF SeverityValueKey(alert_type) = "none" THEN "medium"
             ELSE IF value >= thresholds.critical THEN "critical"
             ELSE IF value >= thresholds.high THEN "high"
             ELSE IF value >= thresholds.medium THEN "medium"
             ELSE "low"

\* Inputs of the classification: values on a grid of tenths, up to
\* MaxValueStep tenths
MaxValueStep == 52
SevValues == {10 * i : i \in 0..MaxValueStep}
SevTypes == {"flood", "tide", "wave", "storm", "system", "erosion"}
SevKeys == {"flood_probability", "tide_level", "wave_height", "storm_intensity"}
SevDicts == {EmptyDict} \cup {[k \in {key} |-> v] : key \in SevKeys, v \in SevValues}

SevInit ==
    \E t \in SevTypes, d \in SevDicts :
        sev_call = [alert_type |-> t, values |-> d, result |-> "pending"]

SevIdle == sev_call = [alert_type |-> "none", values |-> EmptyDict, result |-> "pending"]

\* one call of _calculate_severity on the drawn input
CalcSeverity ==
    /\ sev_call.result = "pending"
    /\ sev_call' = [sev_call EXCEPT
                      !.result = _calculate_severity(sev_call.alert_type, sev_call.values)]

\* a further call with new arguments
NextSeverityCall ==
    /\ sev_call.result # "pending"
    /\ \E t \in SevTypes, d \in SevDicts :
        sev_call' = [alert_type |-> t, values |-> d, result |-> "pending"]

-----------------------------------------------------------------------------
(* The store                                                               *)

\* Python's None where a number is expected
None == 0 - 1

Abs(x) == IF x < 0 THEN 0 - x ELSE x
Min(a, b) == IF a < b THEN a ELSE b

\* bool(x) of an optional float: None and 0.0 are false
Truthy(x) == x # None /\ x # 0

RECURSIVE Flatten(_)
Flatten(ss) == IF ss = <<>> THEN <<>> ELSE Head(ss) \o Flatten(Tail(ss))

\* cosine of a latitude, in thousandths; the model's places lie within one
\* degree of the equator or around 25 degrees north
CosMilli(lat) == IF Abs(lat) <= 100 THEN 1000 ELSE 906

\* geodesic((lat, lon), (ulat, ulon)).kilometers <= radius_km, with the
\* distance computed on the local tangent plane in tenths of a kilometre
WithinRadius(lat, lon, ulat, ulon, radius_km) ==
    LET dy == (111 * Abs(ulat - lat)) \div 10
        dx == ((((111 * Abs(ulon - lon)) \div 10) * CosMilli(lat))) \div 1000
        r  == radius_km * 10
    IN  /\ dy <= r
        /\ dx <= r
        /\ dx * dx + dy * dy <= r * r

\* UserLocation.latitude.between(lat - lat_delta, lat + lat_delta) with
\* lat_delta = radius_km / 111.0
InLatBand(ulat, lat, radius_km) == Abs(ulat - lat) * 111 <= radius_km * 100

\* UserLocation.longitude.between(lon - lon_delta, lon + lon_delta) with
\* lon_delta = radius_km / (111.0 * abs(lat) if lat != 0 else 111.0)
InLonBand(ulon, lat, lon, radius_km) ==
    IF lat # 0
    THEN Abs(ulon - lon) * Abs(lat) <= (radius_km * 1000000) \div 111
    ELSE Abs(ulon - lon) * 111 <= radius_km * 100

\* AlertService._find_affected_users without the final distance filter
_find_affected_users_no_distance(location, radius_km, alert_type, severity) ==
    LET lat == location.latitude
        lon == location.longitude
    IN  IF ~(Truthy(lat) /\ Truthy(lon))
        THEN <<>>
        ELSE
          LET Matches(u, loc) ==
                /\ InLatBand(loc.latitude, lat, radius_km)
                /\ InLonBand(loc.longitude, lat, lon, radius_km)
                /\ u.is_active
                /\ u.has_preferences
                /\ (alert_type # "" => alert_type \in u.alert_types)
                /\ (severity \in Range(severity_levels) =>
                      \E i \in 1..SeverityIndex(severity) :
                          u.severity_threshold = severity_levels[i])
              RowsOf(uid) ==
                LET hit == SelectSeq(users[uid].locations,
                                     LAMBDA loc : Matches(users[uid], loc))
                IN  [j \in 1..Len(hit) |-> uid]
          IN  Flatten([uid \in 1..Len(users) |-> RowsOf(uid)])

\* AlertService._find_affected_users: the ids of the users to notify, one
\* entry per row of the join of users, locations and preferences
_find_affected_users(location, radius_km, alert_type, severity) ==
    LET lat == location.latitude
        lon == location.longitude
    IN  IF ~(Truthy(lat) /\ Truthy(lon))
        THEN <<>>
        ELSE
          LET Matches(u, loc) ==
                /\ InLatBand(loc.latitude, lat, radius_km)
                /\ InLonBand(loc.longitude, lat, lon, radius_km)
                /\ u.is_active
                /\ u.has_preferences
                /\ (alert_type # "" => alert_type \in u.alert_types)
                /\ (severity \in Range(severity_levels) =>
                      \E i \in 1..SeverityIndex(severity) :
                          u.severity_threshold = severity_levels[i])
              RowsOf(uid) ==
                LET hit == SelectSeq(users[uid].locations,
                                     LAMBDA loc : Matches(users[uid], loc))
                IN  [j \in 1..Len(hit) |-> uid]
              user_ids == Flatten([uid \in 1..Len(users) |-> RowsOf(uid)])
              \* db.query(UserLocation).filter(user_id == ...).first()
              NearFirst(uid) ==
                /\ users[uid].locations # <<>>
                /\ LET user_location == Head(users[uid].locations)
                   IN  /\ Truthy(user_location.latitude)
                       /\ Truthy(user_location.longitude)
                       /\ WithinRadius(lat, lon, user_location.latitude,
                                       user_location.longitude, radius_km)
          IN  SelectSeq(user_ids, NearFirst)

\* NotificationService.send_alert_notification for one user; outcome is what
\* the channels did: "sent" (a channel delivered), "failed" (none did),
\* "error" (an exception reached the handler's except clause)
send_alert_notification(alert_id, user_id, outcome) ==
    IF user_id \notin DOMAIN users
    THEN [success |-> FALSE, records |-> <<>>]
    ELSE IF ~users[user_id].has_preferences
    THEN [success |-> FALSE, records |-> <<>>]
    ELSE IF outcome = "error"
    THEN [success |-> FALSE, records |-> <<>>]
    ELSE [success |-> TRUE,
          records |-> << [alert_id |-> alert_id,
                          user_id |-> user_id,
                          status |-> IF outcome = "sent" THEN "sent" ELSE "failed",
                          sent_at |-> now,
                          retry_count |-> 0,
                          max_retries |-> 3,
                          next_retry_at |-> None] >>]

\* NotificationService.send_bulk_alert: one send per entry of user_ids
send_bulk_alert(alert_id, user_ids, outcomes) ==
    LET res == [i \in 1..Len(user_ids) |->
                  send_alert_notification(alert_id, user_ids[i], outcomes[i])]
        ok  == {i \in 1..Len(user_ids) : res[i].success}
    IN  [total_users |-> Len(user_ids),
         successful |-> Cardinality(ok),
         failed |-> Len(user_ids) - Cardinality(ok),
         records |-> Flatten([i \in 1..Len(user_ids) |-> res[i].records])]

\* batch_size of _send_alert_notifications
batch_size == 10

\* a slice that runs one entry into the next slice
BatchOf_overlapping(user_ids, b) ==
    SubSeq(user_ids, (b - 1) * batch_size + 1, Min(b * batch_size + 1, Len(user_ids)))

\* the b-th slice user_ids[i:i + batch_size], slices numbered from 1
BatchOf(user_ids, b) ==
    SubSeq(user_ids, (b - 1) * batch_size + 1, Min(b * batch_size, Len(user_ids)))

NumBatches(n) == (n + batch_size - 1) \div batch_size

\* the loop of _send_alert_notifications from slice b on; raises is the set
\* of slices for which send_bulk_alert raises
RECURSIVE SendBatchesFrom(_, _, _, _, _)
SendBatchesFrom(alert_id, user_ids, b, outcomes, raises) ==
    IF b > NumBatches(Len(user_ids))
    THEN [successful |-> 0, failed |-> 0, batches |-> <<>>, records |-> <<>>]
    ELSE LET batch == BatchOf(user_ids, b)
             offs  == (b - 1) * batch_size
             bulk  == send_bulk_alert(alert_id, batch,
                                      [k \in 1..Len(batch) |-> outcomes[offs + k]])
             rest  == SendBatchesFrom(alert_id, user_ids, b + 1, outcomes, raises)
         IN  [successful |-> (IF b \in raises THEN 0 ELSE bulk.successful)
                               + rest.successful,
              failed |-> (IF b \in raises THEN Len(batch) ELSE bulk.failed)
                           + rest.failed,
              batches |-> <<batch>> \o rest.batches,
              records |-> bulk.records \o rest.records]

\* AlertService._send_alert_notifications; batches lists what was handed to
\* send_bulk_alert, records the notification rows written
_send_alert_notifications(alert_id, user_ids, outcomes, raises) ==
    IF user_ids = <<>>
    THEN [successful |-> 0, failed |-> 0, batches |-> <<>>, records |-> <<>>]
    ELSE SendBatchesFrom(alert_id, user_ids, 1, outcomes, raises)

\* what the channels may do for n sends: at most MaxFailures of them do
\* not deliver
MaxFailures == 1
Outcomes(n) ==
    {[i \in 1..n |-> IF i \in DOMAIN k THEN k[i] ELSE "sent"] :
        k \in UNION {[F -> {"failed", "error"}] :
                       F \in {S \in SUBSET (1..n) : Cardinality(S) <= MaxFailures}}}

NoResult ==
    [op |-> "none", success |-> FALSE, error |-> "", alert_id |-> None,
     user_id |-> None, affected_users |-> <<>>, batches |-> <<>>, successful |-> 0, failed |-> 0]

\* the keys under which _get_latest_station_data stores datetime objects
DatetimeKeys == {"timestamp", "tide_timestamp", "weather_timestamp"}

\* json.dumps(metadata) returns: it raises TypeError on a datetime object.
\* metadata is given by the entries of the station data it holds.
JsonSerializable(metadata) == DOMAIN metadata \cap DatetimeKeys = {}

\* the tables a call of create_alert writes, and what it returns
CurrentDb ==
    [alerts |-> alerts, notifications |-> notifications, metrics |-> metrics,
     result |-> result]

\* AlertService.create_alert on the tables db; origin records which caller
\* built alert_data.  An exception while the Alert is built is caught: the
\* session is rolled back and success False is returned.
create_alert(db, alert_data, origin, outcomes, raises) ==
    IF ~JsonSerializable(Get(alert_data, "metadata", EmptyDict)) THEN
        [db EXCEPT !.result = [NoResult EXCEPT !.op = "create_alert",
                                               !.error = "TypeError"]]
    ELSE
    LET alert_id == Len(db.alerts) + 1
        severity == _calculate_severity(alert_data.alert_type,
                                        Get(alert_data, "values", EmptyDict))
        alert == [id |-> alert_id,
                  alert_type |-> alert_data.alert_type,
                  severity |-> severity,
                  location_name |-> alert_data.location.name,
                  latitude |-> alert_data.location.latitude,
                  longitude |-> alert_data.location.longitude,
                  affected_radius_km |-> Get(alert_data, "affected_radius_km", 10),
                  source |-> Get(alert_data, "source", "system"),
                  source_id |-> Get(alert_data, "source_id", None),
                  created_at |-> now,
                  is_active |-> TRUE,
                  acknowledged_at |-> None,
                  acknowledged_by |-> None,
                  resolved_at |-> None,
                  resolved_by |-> None,
                  origin |-> origin]
        affected_users == _find_affected_users(
                              alert_data.location,
                              Get(alert_data, "affected_radius_km", 10),
                              alert_data.alert_type, severity)
        notification_results == _send_alert_notifications(
                                    alert_id, affected_users, outcomes, raises)
    IN  [alerts |-> Append(db.alerts, alert),
         notifications |-> db.notifications \o notification_results.records,
         metrics |-> Append(db.metrics, [alert_id |-> alert_id,
                                         users_notified |-> Len(affected_users)]),
         result |-> [op |-> "create_alert", success |-> TRUE, error |-> "",
                     alert_id |-> alert_id, user_id |-> None,
                     affected_users |-> affected_users,
                     batches |-> notification_results.batches,
                     successful |-> notification_results.successful,
                     failed |-> notification_results.failed]]

\* the rows the join of users and locations can return at most
TotalRows == Len(Flatten([uid \in 1..Len(users) |-> users[uid].locations]))

\* the tables become db
WriteDb(db) ==
    /\ alerts' = db.alerts
    /\ notifications' = db.notifications
    /\ metrics' = db.metrics
    /\ result' = db.result

\* a call of create_alert with whatever the channels then do
CreateAlert(alert_data, origin) ==
    \E outcomes \in Outcomes(TotalRows), raises \in SUBSET (1..NumBatches(TotalRows)) :
        WriteDb(create_alert(CurrentDb, alert_data, origin, outcomes, raises))

MonIdle ==
    /\ stations = <<>>
    /\ tide_data = <<>>
    /\ weather_data = <<>>
    /\ mon_pos = 1
    /\ mon_check = 1

DbIdle ==
    /\ now = 0
    /\ users = <<>>
    /\ alerts = <<>>
    /\ history = <<>>
    /\ notifications = <<>>
    /\ metrics = <<>>
    /\ result = NoResult

-----------------------------------------------------------------------------
(* Subscribers and direct calls of create_alert                            *)

Place(lat, lon) == [latitude |-> lat, longitude |-> lon]

\* the location lists a user may have stored: none; 2 km north of
\* (25.00, -80.00); 5 km east of it; 111 km north of it; a far place first
\* and the near one second; two near places; 2 km north of (0.50, -80.00);
\* 17 km east of (0.50, -80.00); 2 km north of (25.00, 0.00)
UserLocationLists ==
    { <<>>,
      <<Place(2502, 0 - 8000)>>,
      <<Place(2500, 0 - 7995)>>,
      <<Place(2600, 0 - 8000)>>,
      <<Place(2600, 0 - 8000), Place(2502, 0 - 8000)>>,
      <<Place(2502, 0 - 8000), Place(2503, 0 - 8000)>>,
      <<Place(52, 0 - 8000)>>,
      <<Place(50, 0 - 7985)>>,
      <<Place(2502, 0)>> }

UserKinds ==
    [is_active : BOOLEAN,
     has_preferences : BOOLEAN,
     locations : UserLocationLists,
     alert_types : {{"tide"}, {"flood", "storm"}},
     severity_threshold : {"low", "medium", "critical"}]

\* a subscriber of every alert type, 2 km from (25.00, -80.00)
NearSubscriber ==
    [is_active |-> TRUE, has_preferences |-> TRUE,
     locations |-> <<Place(2502, 0 - 8000)>>,
     alert_types |-> {"flood", "tide", "wave", "storm"},
     severity_threshold |-> "low"]

AlertPlaces ==
    { [name |-> "Miami", latitude |-> 2500, longitude |-> 0 - 8000],
      [name |-> "Quito", latitude |-> 50, longitude |-> 0 - 8000],
      [name |-> "Equator", latitude |-> 0, longitude |-> 0 - 8000],
      [name |-> "Meridian", latitude |-> 2500, longitude |-> 0] }

\* the alert_data of direct calls: no affected_radius_km, no source_id
ApiAlertData ==
    {[alert_type |-> "tide", location |-> p,
      values |-> [k \in {"tide_level"} |-> v]] : p \in AlertPlaces, v \in {260, 360}}
    \cup
    {[alert_type |-> "flood", location |-> p,
      values |-> [k \in {"flood_probability"} |-> v]] : p \in AlertPlaces, v \in {45, 95}}

UsersInit ==
    /\ now = 0
    /\ users \in {<<u, v>> : u \in UserKinds, v \in {NearSubscriber}}
    /\ alerts = <<>>
    /\ history = <<>>
    /\ notifications = <<>>
    /\ metrics = <<>>
    /\ result = NoResult

\* one direct call of create_alert on the drawn users
CreateAlertApi ==
    /\ alerts = <<>>
    /\ \E alert_data \in ApiAlertData : CreateAlert(alert_data, "api")
    /\ UNCHANGED <<now, users, history>>
    /\ UNCHANGED <<sevVars, monVars, taskVars, httpVars, authVars, manualVars>>

-----------------------------------------------------------------------------
(* Acknowledging and resolving                                             *)

\* what acknowledge_alert and resolve_alert return
CallResult(op, alert_id, user_id, success, error) ==
    [NoResult EXCEPT !.op = op, !.alert_id = alert_id, !.user_id = user_id,
                     !.success = success, !.error = error]

\* acknowledge_alert without the test of acknowledged_at
acknowledge_alert_unguarded(alert_id, user_id) ==
    IF alert_id \notin DOMAIN alerts
    THEN /\ result' = CallResult("acknowledge_alert", alert_id, user_id, FALSE,
                                 "Alert not found")
         /\ UNCHANGED <<alerts, history>>
    ELSE /\ alerts' = [alerts EXCEPT ![alert_id].acknowledged_at = now,
                                     ![alert_id].acknowledged_by = user_id]
         /\ history' = Append(history, [alert_id |-> alert_id, user_id |-> user_id,
                                        action |-> "acknowledged", timestamp |-> now])
         /\ result' = CallResult("acknowledge_alert", alert_id, user_id, TRUE, "")

\* AlertService.acknowledge_alert
acknowledge_alert(alert_id, user_id) ==
    IF alert_id \notin DOMAIN alerts
    THEN /\ result' = CallResult("acknowledge_alert", alert_id, user_id, FALSE,
                                 "Alert not found")
         /\ UNCHANGED <<alerts, history>>
    ELSE IF alerts[alert_id].acknowledged_at # None
    THEN /\ result' = CallResult("acknowledge_alert", alert_id, user_id, FALSE,
                                 "Alert already acknowledged")
         /\ UNCHANGED <<alerts, history>>
    ELSE /\ alerts' = [alerts EXCEPT ![alert_id].acknowledged_at = now,
                                     ![alert_id].acknowledged_by = user_id]
         /\ history' = Append(history, [alert_id |-> alert_id, user_id |-> user_id,
                                        action |-> "acknowledged", timestamp |-> now])
         /\ result' = CallResult("acknowledge_alert", alert_id, user_id, TRUE, "")

\* resolve_alert without the test of resolved_at
resolve_alert_unguarded(alert_id, user_id) ==
    IF alert_id \notin DOMAIN alerts
    THEN /\ result' = CallResult("resolve_alert", alert_id, user_id, FALSE,
                                 "Alert not found")
         /\ UNCHANGED <<alerts, history>>
    ELSE /\ alerts' = [alerts EXCEPT ![alert_id].resolved_at = now,
                                     ![alert_id].resolved_by = user_id,
                                     ![alert_id].is_active = FALSE]
         /\ history' = Append(history, [alert_id |-> alert_id, user_id |-> user_id,
                                        action |-> "resolved", timestamp |-> now])
         /\ result' = CallResult("resolve_alert", alert_id, user_id, TRUE, "")

\* AlertService.resolve_alert
resolve_alert(alert_id, user_id) ==
    IF alert_id \notin DOMAIN alerts
    THEN /\ result' = CallResult("resolve_alert", alert_id, user_id, FALSE,
                                 "Alert not found")
         /\ UNCHANGED <<alerts, history>>
    ELSE IF alerts[alert_id].resolved_at # None
    THEN /\ result' = CallResult("resolve_alert", alert_id, user_id, FALSE,
                                 "Alert already resolved")
         /\ UNCHANGED <<alerts, history>>
    ELSE /\ alerts' = [alerts EXCEPT ![alert_id].resolved_at = now,
                                     ![alert_id].resolved_by = user_id,
                                     ![alert_id].is_active = FALSE]
         /\ history' = Append(history, [alert_id |-> alert_id, user_id |-> user_id,
                                        action |-> "resolved", timestamp |-> now])
         /\ result' = CallResult("resolve_alert", alert_id, user_id, TRUE, "")

\* the alerts, callers and clock of the lifecycle specification
MaxLifecycleAlerts == 1
MaxTime == 1
Operators == {1, 2}

LifecycleInit ==
    /\ now = 0
    /\ users = <<>>
    /\ alerts = <<>>
    /\ history = <<>>
    /\ notifications = <<>>
    /\ metrics = <<>>
    /\ result = NoResult

\* a direct call of create_alert for a tide alert at Miami
LifecycleCreate ==
    /\ Len(alerts) < MaxLifecycleAlerts
    /\ \E alert_data \in {d \in ApiAlertData :
                             /\ d.alert_type = "tide"
                             /\ d.location.name = "Miami"
                             /\ d.values["tide_level"] = 260} :
          CreateAlert(alert_data, "api")
    /\ UNCHANGED <<now, users, history>>
    /\ UNCHANGED <<sevVars, monVars, taskVars, httpVars, authVars, manualVars>>

\* a call of acknowledge_alert, also for an id no alert has
AcknowledgeAlert ==
    /\ \E alert_id \in 1..(MaxLifecycleAlerts + 1), user_id \in Operators :
          acknowledge_alert(alert_id, user_id)
    /\ UNCHANGED <<now, users, notifications, metrics>>
    /\ UNCHANGED <<sevVars, monVars, taskVars, httpVars, authVars, manualVars>>

\* a call of resolve_alert, also for an id no alert has
ResolveAlert ==
    /\ \E alert_id \in 1..(MaxLifecycleAlerts + 1), user_id \in Operators :
          resolve_alert(alert_id, user_id)
    /\ UNCHANGED <<now, users, notifications, metrics>>
    /\ UNCHANGED <<sevVars, monVars, taskVars, httpVars, authVars, manualVars>>

\* a minute passes
Tick ==
    /\ now < MaxTime
    /\ now' = now + 1
    /\ result' = NoResult
    /\ UNCHANGED <<users, alerts, history, notifications, metrics>>
    /\ UNCHANGED <<sevVars, monVars, taskVars, httpVars, authVars, manualVars>>

-----------------------------------------------------------------------------
(* C1: for flood, tide, wave and storm the result is 'critical' from the   *)
(* critical cutoff up, else 'high' from the high cutoff up, else 'medium'  *)
(* from the medium cutoff up, else 'low'; any other type gives 'medium';   *)
(* the result is one of the four levels and does not decrease when the     *)
(* value increases.                                                        *)
SevValueOf(call) == Get(call.values, SeverityValueKey(call.alert_type), 0)

C1_SeverityBuckets ==
    sev_call.result # "pending" =>
        LET t == sev_call.alert_type
            v == SevValueOf(sev_call)
            r == sev_call.result
        IN  /\ r \in Range(severity_levels)
            /\ t \notin {"flood", "tide", "wave", "storm"} => r = "medium"
            /\ t \in {"flood", "tide", "wave", "storm"} =>
                 LET c == alert_thresholds[t]
                 IN  /\ (r = "critical") <=> (v >= c.critical)
                     /\ (r = "high") <=> (v >= c.high /\ v < c.critical)
                     /\ (r = "medium") <=> (v >= c.medium /\ v < c.high)
                     /\ (r = "low") <=> (v < c.medium)
            /\ \A w \in SevValues :
                 w <= v /\ SeverityValueKey(t) # "none" =>
                   SeverityIndex(_calculate_severity(t,
                       [k \in {SeverityValueKey(t)} |-> w])) <= SeverityIndex(r)

\* a tide level exactly at the high cutoff has been classified
C1_Witness ==
    /\ sev_call.alert_type = "tide"
    /\ SevValueOf(sev_call) = alert_thresholds.tide.high
    /\ sev_call.result = "high"

-----------------------------------------------------------------------------
\* the user has a stored location within the alert's radius, is active,
\* lists the alert's type and has a threshold not above its severity
Qualified(uid, alert) ==
    /\ users[uid].is_active
    /\ users[uid].has_preferences
    /\ \E loc \in Range(users[uid].locations) :
          WithinRadius(alert.latitude, alert.longitude,
                       loc.latitude, loc.longitude, alert.affected_radius_km)
    /\ alert.alert_type \in users[uid].alert_types
    /\ SeverityIndex(users[uid].severity_threshold) <= SeverityIndex(alert.severity)

(* C5: every user id returned by _find_affected_users is an active user    *)
(* with a stored location within radius_km of the alert, whose preferences *)
(* list the alert's type and whose severity_threshold is not above the     *)
(* alert's severity.                                                       *)
C5_AffectedAreQualified ==
    result.op = "create_alert" =>
        \A uid \in Range(result.affected_users) :
            Qualified(uid, alerts[result.alert_id])

\* an alert near the equator returned the subscriber 2 km away and left out
\* the user 17 km away whose location lies inside the bounding box
C5_Witness ==
    /\ result.op = "create_alert"
    /\ alerts[result.alert_id].latitude = 50
    /\ result.affected_users = <<1>>
    /\ users[2].locations = <<Place(2502, 0 - 8000)>>

(* C6: every active user with a stored location within radius_km of the    *)
(* alert, whose preferences list the alert's type and whose                *)
(* severity_threshold is not above the alert's severity, is returned by    *)
(* _find_affected_users and handed to the notification fan-out of          *)
(* create_alert, also for an alert at latitude 0 or longitude 0.           *)
C6_QualifiedAreAffected ==
    result.op = "create_alert" =>
        \A uid \in DOMAIN users :
            Qualified(uid, alerts[result.alert_id]) =>
                /\ uid \in Range(result.affected_users)
                /\ uid \in Range(Flatten(result.batches))

-----------------------------------------------------------------------------
(* The monitoring loop                                                     *)

\* the monitoring_stations rows
MonitoringStations ==
    << [id |-> 1, name |-> "Miami", latitude |-> 2500, longitude |-> 0 - 8000,
        is_active |-> TRUE],
       [id |-> 2, name |-> "Key West", latitude |-> 2455, longitude |-> 0 - 8180,
        is_active |-> TRUE] >>

\* a station without a tide_data row, without a weather_data row
NoTide == [present |-> FALSE, water_level |-> 0, timestamp |-> 0]
NoWeather ==
    [present |-> FALSE, wave_height |-> 0, wind_speed |-> 0,
     atmospheric_pressure |-> 0, timestamp |-> 0]

\* the stations the loop's query returns
ActiveStations == SelectSeq(stations, LAMBDA st : st.is_active)

\* AlertService._get_latest_station_data; EmptyDict stands for None
_get_latest_station_data(station_id) ==
    LET latest_tide    == tide_data[station_id]
        latest_weather == weather_data[station_id]
        base    == [k \in {"station_id", "timestamp"} |->
                       IF k = "station_id" THEN station_id ELSE now]
        tide    == IF latest_tide.present
                   THEN [k \in {"tide_level", "tide_timestamp"} |->
                            IF k = "tide_level" THEN latest_tide.water_level
                            ELSE latest_tide.timestamp]
                   ELSE EmptyDict
        weather == IF latest_weather.present
                   THEN [k \in {"wave_height", "wind_speed_kmh",
                                "atmospheric_pressure", "weather_timestamp"} |->
                            CASE k = "wave_height" -> latest_weather.wave_height
                              [] k = "wind_speed_kmh" -> latest_weather.wind_speed
                              [] k = "atmospheric_pressure" ->
                                     latest_weather.atmospheric_pressure
                              [] OTHER -> latest_weather.timestamp]
                   ELSE EmptyDict
    IN  IF ~latest_tide.present /\ ~latest_weather.present
        THEN EmptyDict
        ELSE weather @@ tide @@ base

\* the location every _create_*_alert builds from station_data
StationLocation(station_data) ==
    [name |-> station_data.station_name,
     latitude |-> station_data.latitude,
     longitude |-> station_data.longitude]

\* AlertService._create_flood_alert
_create_flood_alert(db, station_data, flood_probability, outcomes, raises) ==
    create_alert(db,
                 [alert_type |-> "flood",
                  location |-> StationLocation(station_data),
                  affected_radius_km |-> 15,
                  values |-> [k \in {"flood_probability"} |-> flood_probability],
                  metadata |-> station_data.data],
                 "monitor", outcomes, raises)

\* AlertService._create_tide_alert
_create_tide_alert(db, station_data, outcomes, raises) ==
    LET tide_level == Get(station_data.data, "tide_level", 0)
    IN  create_alert(db,
                     [alert_type |-> "tide",
                      location |-> StationLocation(station_data),
                      affected_radius_km |-> 10,
                      values |-> [k \in {"tide_level"} |-> tide_level],
                      metadata |-> station_data.data],
                     "monitor", outcomes, raises)

\* AlertService._create_wave_alert
_create_wave_alert(db, station_data, outcomes, raises) ==
    LET wave_height == Get(station_data.data, "wave_height", 0)
    IN  create_alert(db,
                     [alert_type |-> "wave",
                      location |-> StationLocation(station_data),
                      affected_radius_km |-> 8,
                      values |-> [k \in {"wave_height"} |-> wave_height],
                      metadata |-> station_data.data],
                     "monitor", outcomes, raises)

\* AlertService._create_storm_alert; storm_intensity in hundredths
_create_storm_alert(db, station_data, outcomes, raises) ==
    LET wind_speed == Get(station_data.data, "wind_speed_kmh", 0)
        pressure   == Get(station_data.data, "atmospheric_pressure", 1013)
    IN  create_alert(db,
                     [alert_type |-> "storm",
                      location |-> StationLocation(station_data),
                      affected_radius_km |-> 25,
                      values |-> [k \in {"wind_speed", "pressure", "storm_intensity"} |->
                                     CASE k = "wind_speed" -> wind_speed
                                       [] k = "pressure" -> pressure
                                       [] OTHER -> Min(wind_speed, 100)],
                      metadata |-> station_data.data],
                     "monitor", outcomes, raises)

\* the query for a similar recent alert: a row whose source_id is NULL
\* equals no station id
ExistingAlert(db, alert_type, station, recent_cutoff) ==
    \E i \in DOMAIN db.alerts :
        /\ db.alerts[i].alert_type = alert_type
        /\ db.alerts[i].source_id # None
        /\ db.alerts[i].source_id = station.id
        /\ db.alerts[i].created_at >= recent_cutoff
        /\ db.alerts[i].is_active

\* AlertService._check_system_wide_conditions that also fires when half of
\* the stations report
_check_system_wide_conditions_at_half(db, outcomes, raises) ==
    LET total_stations == Len(ActiveStations)
        recent_cutoff == now - 30
        stations_with_recent_data ==
            Cardinality({i \in DOMAIN stations :
                            /\ stations[i].is_active
                            /\ tide_data[stations[i].id].present
                            /\ tide_data[stations[i].id].timestamp >= recent_cutoff})
        existing_alert ==
            \E i \in DOMAIN db.alerts :
                /\ db.alerts[i].alert_type = "system"
                /\ db.alerts[i].created_at >= now - 60
                /\ db.alerts[i].is_active
    IN  IF /\ total_stations > 0
           /\ 2 * stations_with_recent_data <= total_stations
           /\ ~existing_alert
        THEN create_alert(db,
                          [alert_type |-> "system",
                           location |-> [name |-> "System Wide",
                                         latitude |-> 2576,
                                         longitude |-> 0 - 8019],
                           affected_radius_km |-> 500,
                           source |-> "monitoring_system",
                           metadata |-> [k \in {"total_stations", "active_stations"} |->
                                            IF k = "total_stations" THEN total_stations
                                            ELSE stations_with_recent_data]],
                          "monitor", outcomes, raises)
        ELSE db

\* AlertService._check_system_wide_conditions on the tables db
_check_system_wide_conditions(db, outcomes, raises) ==
    LET total_stations == Len(ActiveStations)
        recent_cutoff == now - 30
        stations_with_recent_data ==
            Cardinality({i \in DOMAIN stations :
                            /\ stations[i].is_active
                            /\ tide_data[stations[i].id].present
                            /\ tide_data[stations[i].id].timestamp >= recent_cutoff})
        existing_alert ==
            \E i \in DOMAIN db.alerts :
                /\ db.alerts[i].alert_type = "system"
                /\ db.alerts[i].created_at >= now - 60
                /\ db.alerts[i].is_active
    IN  IF /\ total_stations > 0
           /\ 2 * stations_with_recent_data < total_stations
           /\ ~existing_alert
        THEN create_alert(db,
                          [alert_type |-> "system",
                           location |-> [name |-> "System Wide",
                                         latitude |-> 2576,
                                         longitude |-> 0 - 8019],
                           affected_radius_km |-> 500,
                           source |-> "monitoring_system",
                           metadata |-> [k \in {"total_stations", "active_stations"} |->
                                            IF k = "total_stations" THEN total_stations
                                            ELSE stations_with_recent_data]],
                          "monitor", outcomes, raises)
        ELSE db

\* the readings the stations report and what the flood model may predict
TideLevels == {240, 260}
WeatherKinds ==
    { [wave_height |-> 150, wind_speed |-> 20, atmospheric_pressure |-> 1013],
      [wave_height |-> 350, wind_speed |-> 80, atmospheric_pressure |-> 985] }
FloodProbabilities == {20, 50}
MaxMonitorAlerts == 2
MaxMonitorTime == 5

MonitorInit ==
    /\ now = 0
    /\ users = <<>>
    /\ alerts = <<>>
    /\ history = <<>>
    /\ notifications = <<>>
    /\ metrics = <<>>
    /\ result = NoResult
    /\ stations = MonitoringStations
    /\ tide_data = [i \in DOMAIN MonitoringStations |-> NoTide]
    /\ weather_data = [i \in DOMAIN MonitoringStations |-> NoWeather]
    /\ mon_pos = 1
    /\ mon_check = 1

\* the loop has not begun the stations of this cycle
BetweenCycles == mon_pos = 1 /\ mon_check = 1

\* a station stores a tide reading, between two cycles
IngestTide ==
    /\ BetweenCycles
    /\ \E st \in DOMAIN stations, level \in TideLevels :
          tide_data' = [tide_data EXCEPT ![st] =
                           [present |-> TRUE, water_level |-> level,
                            timestamp |-> now]]
    /\ UNCHANGED <<now, users, alerts, history, notifications, metrics, result,
                   stations, weather_data, mon_pos, mon_check>>
    /\ UNCHANGED <<sevVars, taskVars, httpVars, authVars, manualVars>>

\* a station stores a weather reading, between two cycles
IngestWeather ==
    /\ BetweenCycles
    /\ \E st \in DOMAIN stations, w \in WeatherKinds :
          weather_data' = [weather_data EXCEPT ![st] =
                              [present |-> TRUE, wave_height |-> w.wave_height,
                               wind_speed |-> w.wind_speed,
                               atmospheric_pressure |-> w.atmospheric_pressure,
                               timestamp |-> now]]
    /\ UNCHANGED <<now, users, alerts, history, notifications, metrics, result,
                   stations, tide_data, mon_pos, mon_check>>
    /\ UNCHANGED <<sevVars, taskVars, httpVars, authVars, manualVars>>

\* the station the loop is at, its data, and what the checks pass on
CurrentStation == ActiveStations[mon_pos]
CurrentData == _get_latest_station_data(CurrentStation.id)
CurrentStationData ==
    [station_name |-> CurrentStation.name,
     latitude |-> CurrentStation.latitude,
     longitude |-> CurrentStation.longitude,
     data |-> CurrentData]

\* the tables become db unless that is more alerts than the model keeps
WriteBounded(db) ==
    /\ Len(db.alerts) <= MaxMonitorAlerts
    /\ WriteDb(db)

\* the loop goes on to the next check, after the fourth to the next station
NextCheck ==
    /\ mon_check' = IF mon_check = 4 THEN 1 ELSE mon_check + 1
    /\ mon_pos' = IF mon_check = 4 THEN mon_pos + 1 ELSE mon_pos
    /\ UNCHANGED <<now, users, history, stations, tide_data, weather_data>>
    /\ UNCHANGED <<sevVars, taskVars, httpVars, authVars, manualVars>>

\* the loop's for statement skips a station without data
MonitorNoData ==
    /\ mon_pos <= Len(ActiveStations)
    /\ mon_check = 1
    /\ CurrentData = EmptyDict
    /\ mon_pos' = mon_pos + 1
    /\ UNCHANGED <<now, users, alerts, history, notifications, metrics, result,
                   stations, tide_data, weather_data, mon_check>>
    /\ UNCHANGED <<sevVars, taskVars, httpVars, authVars, manualVars>>

\* _check_alert_conditions: the check for flood risk
MonitorFloodCheck ==
    /\ mon_pos <= Len(ActiveStations)
    /\ mon_check = 1
    /\ CurrentData # EmptyDict
    /\ \E flood_probability \in FloodProbabilities :
          IF /\ (Truthy(Get(CurrentData, "tide_level", None))
                   \/ Truthy(Get(CurrentData, "wave_height", None)))
             /\ flood_probability > 30
             /\ ~ExistingAlert(CurrentDb, "flood", CurrentStation, now - 120)
          THEN \E outcomes \in Outcomes(TotalRows),
                  raises \in SUBSET (1..NumBatches(TotalRows)) :
                   WriteBounded(_create_flood_alert(
                       CurrentDb, CurrentStationData, flood_probability,
                       outcomes, raises))
          ELSE UNCHANGED <<alerts, notifications, metrics, result>>
    /\ NextCheck

\* _check_alert_conditions: the check for a high tide
MonitorTideCheck ==
    /\ mon_pos <= Len(ActiveStations)
    /\ mon_check = 2
    /\ IF /\ Get(CurrentData, "tide_level", 0) > alert_thresholds.tide.medium
          /\ ~ExistingAlert(CurrentDb, "tide", CurrentStation, now - 120)
       THEN \E outcomes \in Outcomes(TotalRows),
               raises \in SUBSET (1..NumBatches(TotalRows)) :
                WriteBounded(_create_tide_alert(
                    CurrentDb, CurrentStationData, outcomes, raises))
       ELSE UNCHANGED <<alerts, notifications, metrics, result>>
    /\ NextCheck

\* _check_alert_conditions: the check for high waves
MonitorWaveCheck ==
    /\ mon_pos <= Len(ActiveStations)
    /\ mon_check = 3
    /\ IF /\ Get(CurrentData, "wave_height", 0) > alert_thresholds.wave.medium
          /\ ~ExistingAlert(CurrentDb, "wave", CurrentStation, now - 120)
       THEN \E outcomes \in Outcomes(TotalRows),
               raises \in SUBSET (1..NumBatches(TotalRows)) :
                WriteBounded(_create_wave_alert(
                    CurrentDb, CurrentStationData, outcomes, raises))
       ELSE UNCHANGED <<alerts, notifications, metrics, result>>
    /\ NextCheck

\* _check_alert_conditions: the check for storm conditions
MonitorStormCheck ==
    /\ mon_pos <= Len(ActiveStations)
    /\ mon_check = 4
    /\ IF /\ (Get(CurrentData, "wind_speed_kmh", 0) > 60
                \/ Get(CurrentData, "atmospheric_pressure", 1013) < 990)
          /\ ~ExistingAlert(CurrentDb, "storm", CurrentStation, now - 120)
       THEN \E outcomes \in Outcomes(TotalRows),
               raises \in SUBSET (1..NumBatches(TotalRows)) :
                WriteBounded(_create_storm_alert(
                    CurrentDb, CurrentStationData, outcomes, raises))
       ELSE UNCHANGED <<alerts, notifications, metrics, result>>
    /\ NextCheck

\* the end of a cycle: the system-wide check, then the sleep of 5 minutes
MonitorCycleEnd ==
    /\ mon_pos > Len(ActiveStations)
    /\ now + 5 <= MaxMonitorTime
    /\ \E outcomes \in Outcomes(TotalRows),
          raises \in SUBSET (1..NumBatches(TotalRows)) :
          WriteBounded(_check_system_wide_conditions(CurrentDb, outcomes, raises))
    /\ now' = now + 5
    /\ mon_pos' = 1
    /\ UNCHANGED <<users, history, stations, tide_data, weather_data, mon_check>>
    /\ UNCHANGED <<sevVars, taskVars, httpVars, authVars, manualVars>>

\* an operator resolves an alert between two cycles
MonitorResolve ==
    /\ BetweenCycles
    /\ \E alert_id \in DOMAIN alerts : resolve_alert(alert_id, 1)
    /\ UNCHANGED <<now, users, notifications, metrics, stations, tide_data,
                   weather_data, mon_pos, mon_check>>
    /\ UNCHANGED <<sevVars, taskVars, httpVars, authVars, manualVars>>

-----------------------------------------------------------------------------
(* The manual check of all stations (trigger_manual_check)                 *)

NoManualCheck ==
    [stage |-> "idle", success |-> FALSE, stations_checked |-> 0,
     alerts_created |-> 0, alert_ids |-> <<>>, triggered |-> {}]

ManualIdle == manual_check = NoManualCheck

ManualInit == MonitorInit /\ ManualIdle

\* trigger_manual_check begins: it queries the active stations and starts
\* with an empty alerts_created list.  manual_check.alert_ids is that list,
\* manual_check.triggered the conditions the call found to hold.
ManualStart ==
    /\ manual_check.stage # "running"
    /\ mon_pos = 1 /\ mon_check = 1
    /\ manual_check' = [NoManualCheck EXCEPT !.stage = "running"]
    /\ UNCHANGED <<dbVars, monVars>>
    /\ UNCHANGED <<sevVars, taskVars, httpVars, authVars>>

\* the manual check goes on to the next check, after the fourth to the
\* next station
ManualNextCheck ==
    /\ mon_check' = IF mon_check = 4 THEN 1 ELSE mon_check + 1
    /\ mon_pos' = IF mon_check = 4 THEN mon_pos + 1 ELSE mon_pos
    /\ UNCHANGED <<now, users, history, stations, tide_data, weather_data>>
    /\ UNCHANGED <<sevVars, taskVars, httpVars, authVars>>

\* station_alerts gets the id of the alert when create_alert reports success
ManualCreated(db, alert_type) ==
    /\ WriteBounded(db)
    /\ manual_check' =
          [manual_check EXCEPT
              !.alert_ids = IF db.result.success
                            THEN Append(@, db.result.alert_id) ELSE @,
              !.triggered = @ \cup {<<CurrentStation.id, alert_type>>}]

ManualNotTriggered ==
    UNCHANGED <<alerts, notifications, metrics, result, manual_check>>

\* the for statement of trigger_manual_check skips a station without data
ManualNoData ==
    /\ manual_check.stage = "running"
    /\ mon_pos <= Len(ActiveStations)
    /\ mon_check = 1
    /\ CurrentData = EmptyDict
    /\ mon_pos' = mon_pos + 1
    /\ UNCHANGED <<now, users, alerts, history, notifications, metrics, result,
                   stations, tide_data, weather_data, mon_check, manual_check>>
    /\ UNCHANGED <<sevVars, taskVars, httpVars, authVars>>

\* _check_alert_conditions_manual: the check for flood risk
ManualFloodCheck ==
    /\ manual_check.stage = "running"
    /\ mon_pos <= Len(ActiveStations)
    /\ mon_check = 1
    /\ CurrentData # EmptyDict
    /\ \E flood_probability \in FloodProbabilities :
          IF /\ (Truthy(Get(CurrentData, "tide_level", None))
                   \/ Truthy(Get(CurrentData, "wave_height", None)))
             /\ flood_probability > 30
          THEN \E outcomes \in Outcomes(TotalRows),
                  raises \in SUBSET (1..NumBatches(TotalRows)) :
                   ManualCreated(_create_flood_alert(
                                     CurrentDb, CurrentStationData,
                                     flood_probability, outcomes, raises),
                                 "flood")
          ELSE ManualNotTriggered
    /\ ManualNextCheck

\* _check_alert_conditions_manual: the check for a high tide
ManualTideCheck ==
    /\ manual_check.stage = "running"
    /\ mon_pos <= Len(ActiveStations)
    /\ mon_check = 2
    /\ IF Get(CurrentData, "tide_level", 0) > alert_thresholds.tide.medium
       THEN \E outcomes \in Outcomes(TotalRows),
               raises \in SUBSET (1..NumBatches(TotalRows)) :
                ManualCreated(_create_tide_alert(
                                  CurrentDb, CurrentStationData, outcomes, raises),
                              "tide")
       ELSE ManualNotTriggered
    /\ ManualNextCheck

\* _check_alert_conditions_manual: the check for high waves
ManualWaveCheck ==
    /\ manual_check.stage = "running"
    /\ mon_pos <= Len(ActiveStations)
    /\ mon_check = 3
    /\ IF Get(CurrentData, "wave_height", 0) > alert_thresholds.wave.medium
       THEN \E outcomes \in Outcomes(TotalRows),
               raises \in SUBSET (1..NumBatches(TotalRows)) :
                ManualCreated(_create_wave_alert(
                                  CurrentDb, CurrentStationData, outcomes, raises),
                              "wave")
       ELSE ManualNotTriggered
    /\ ManualNextCheck

\* _check_alert_conditions_manual: the check for storm conditions
ManualStormCheck ==
    /\ manual_check.stage = "running"
    /\ mon_pos <= Len(ActiveStations)
    /\ mon_check = 4
    /\ IF \/ Get(CurrentData, "wind_speed_kmh", 0) > 60
          \/ Get(CurrentData, "atmospheric_pressure", 1013) < 990
       THEN \E outcomes \in Outcomes(TotalRows),
               raises \in SUBSET (1..NumBatches(TotalRows)) :
                ManualCreated(_create_storm_alert(
                                  CurrentDb, CurrentStationData, outcomes, raises),
                              "storm")
       ELSE ManualNotTriggered
    /\ ManualNextCheck

\* trigger_manual_check ends: the system-wide check, then the result
ManualReturn ==
    /\ manual_check.stage = "running"
    /\ mon_pos > Len(ActiveStations)
    /\ \E outcomes \in Outcomes(TotalRows),
          raises \in SUBSET (1..NumBatches(TotalRows)) :
          WriteBounded(_check_system_wide_conditions(CurrentDb, outcomes, raises))
    /\ manual_check' = [manual_check EXCEPT
                          !.stage = "done",
                          !.success = TRUE,
                          !.stations_checked = Len(ActiveStations),
                          !.alerts_created = Len(manual_check.alert_ids)]
    /\ mon_pos' = 1
    /\ UNCHANGED <<now, users, history, stations, tide_data, weather_data,
                   mon_check>>
    /\ UNCHANGED <<sevVars, taskVars, httpVars, authVars>>

\* a reading arrives while no manual check runs
ManualIngestTide == manual_check.stage # "running" /\ IngestTide
ManualIngestWeather == manual_check.stage # "running" /\ IngestWeather

-----------------------------------------------------------------------------
(* C14: the manual check creates an alert for every condition it finds     *)

\* C14: trigger_manual_check ignores the recent-alert check: for every
\* active station with data it creates an alert for every triggering
\* condition (flood, tide, wave, storm), and the alerts_created count it
\* returns equals the number of alert ids it returns.
C14_ManualCheckCreatesAlerts ==
    manual_check.stage = "done" =>
        /\ manual_check.alerts_created = Len(manual_check.alert_ids)
        /\ \A c \in manual_check.triggered :
              \E i \in DOMAIN alerts :
                  /\ alerts[i].alert_type = c[2]
                  /\ \E st \in DOMAIN stations :
                        /\ stations[st].id = c[1]
                        /\ alerts[i].location_name = stations[st].name
                  /\ alerts[i].created_at = now
                  /\ alerts[i].id \in Range(manual_check.alert_ids)

-----------------------------------------------------------------------------
(* The system-wide check on its own                                        *)

MaxSystemTime == 3

\* three stations, each active or not; which of them are active does not
\* matter to the check, only how many, so they are activated in order
SystemStations ==
    { sts \in
        { << [id |-> 1, name |-> "Miami", latitude |-> 2500,
              longitude |-> 0 - 8000, is_active |-> a],
             [id |-> 2, name |-> "Key West", latitude |-> 2455,
              longitude |-> 0 - 8180, is_active |-> b],
             [id |-> 3, name |-> "Naples", latitude |-> 2614,
              longitude |-> 0 - 8179, is_active |-> c] >> :
            a, b, c \in BOOLEAN } :
        /\ sts[3].is_active => sts[2].is_active
        /\ sts[2].is_active => sts[1].is_active }

SystemInit ==
    /\ now = 0
    /\ users = <<>>
    /\ alerts = <<>>
    /\ history = <<>>
    /\ notifications = <<>>
    /\ metrics = <<>>
    /\ result = NoResult
    /\ stations \in SystemStations
    /\ tide_data = [i \in 1..3 |-> NoTide]
    /\ weather_data = [i \in 1..3 |-> NoWeather]
    /\ mon_pos = 1
    /\ mon_check = 1

\* a station stores a tide reading
SystemIngestTide ==
    /\ \E st \in DOMAIN stations :
          tide_data' = [tide_data EXCEPT ![st] =
                           [present |-> TRUE, water_level |-> 240,
                            timestamp |-> now]]
    /\ UNCHANGED <<now, users, alerts, history, notifications, metrics, result,
                   stations, weather_data, mon_pos, mon_check>>
    /\ UNCHANGED <<sevVars, taskVars, httpVars, authVars, manualVars>>

\* one call of _check_system_wide_conditions, which returns nothing: result
\* records the call and the alert it stored, if any
SystemWideCheck ==
    /\ \E outcomes \in Outcomes(TotalRows),
          raises \in SUBSET (1..NumBatches(TotalRows)) :
          LET db == _check_system_wide_conditions(CurrentDb, outcomes, raises)
          IN  /\ Len(db.alerts) <= MaxMonitorAlerts
              /\ alerts' = db.alerts
              /\ notifications' = db.notifications
              /\ metrics' = db.metrics
              /\ result' = [NoResult EXCEPT
                              !.op = "_check_system_wide_conditions",
                              !.alert_id = IF Len(db.alerts) > Len(alerts)
                                           THEN Len(db.alerts) ELSE None]
    /\ UNCHANGED <<now, users, history, stations, tide_data, weather_data,
                   mon_pos, mon_check>>
    /\ UNCHANGED <<sevVars, taskVars, httpVars, authVars, manualVars>>

\* half an hour passes
SystemTick ==
    /\ now < MaxSystemTime * 30
    /\ now' = now + 30
    /\ UNCHANGED <<users, alerts, history, notifications, metrics, result,
                   stations, tide_data, weather_data, mon_pos, mon_check>>
    /\ UNCHANGED <<sevVars, taskVars, httpVars, authVars, manualVars>>

\* somebody resolves an alert
SystemResolve == MonitorResolve

-----------------------------------------------------------------------------
(* C15: when the system-wide check raises a 'system' alert                 *)

\* the active stations, and those with tide data of the last 30 minutes
SystemActive == {st \in DOMAIN stations : stations[st].is_active}
SystemReporting ==
    {st \in SystemActive :
        tide_data[st].present /\ now - tide_data[st].timestamp <= 30}

\* an active 'system' alert of the last hour
SystemAlertRecent ==
    \E i \in DOMAIN alerts :
        /\ alerts[i].alert_type = "system"
        /\ alerts[i].is_active
        /\ now - alerts[i].created_at <= 60

SystemAlertDue ==
    /\ Cardinality(SystemActive) >= 1
    /\ 2 * Cardinality(SystemReporting) < Cardinality(SystemActive)
    /\ ~SystemAlertRecent

\* this step stores one more alert, a 'system' alert
SystemAlertStored ==
    /\ Len(alerts') = Len(alerts) + 1
    /\ SubSeq(alerts', 1, Len(alerts)) = alerts
    /\ alerts'[Len(alerts')].alert_type = "system"
    /\ alerts'[Len(alerts')].is_active
    /\ alerts'[Len(alerts')].created_at = now

C15_CheckStep ==
    (/\ result'.op = "_check_system_wide_conditions"
     /\ UNCHANGED <<now, tide_data>>) =>
        /\ SystemAlertDue <=> SystemAlertStored
        /\ ~SystemAlertDue => alerts' = alerts

-----------------------------------------------------------------------------
(* C2: one alert per station and type within two hours                     *)

StationTypes == {"flood", "tide", "wave", "storm"}

\* alert j was created by the loop while alert i, of the same type for the
\* same station and not older than 2 hours, was active
DuplicateOf(i, j) ==
    /\ i < j
    /\ alerts[i].origin = "monitor" /\ alerts[j].origin = "monitor"
    /\ alerts[i].alert_type \in StationTypes
    /\ alerts[i].alert_type = alerts[j].alert_type
    /\ alerts[i].location_name = alerts[j].location_name
    /\ alerts[j].created_at <= alerts[i].created_at + 120
    /\ (alerts[i].resolved_at = None \/ alerts[i].resolved_at > alerts[j].created_at)

\* the latest reading of station st meets the condition of the check
Triggers(alert_type, st) ==
    CASE alert_type = "tide" ->
             /\ tide_data[st].present
             /\ tide_data[st].water_level > alert_thresholds.tide.medium
      [] alert_type = "wave" ->
             /\ weather_data[st].present
             /\ weather_data[st].wave_height > alert_thresholds.wave.medium
      [] alert_type = "storm" ->
             /\ weather_data[st].present
             /\ (weather_data[st].wind_speed > 60
                   \/ weather_data[st].atmospheric_pressure < 990)
      [] OTHER -> FALSE

ReadingTime(alert_type, st) ==
    IF alert_type = "tide" THEN tide_data[st].timestamp
    ELSE weather_data[st].timestamp

ActiveAlertsFor(alert_type, st) ==
    {i \in DOMAIN alerts :
        /\ alerts[i].alert_type = alert_type
        /\ alerts[i].location_name = stations[st].name
        /\ alerts[i].is_active}

\* the loop has gone through its stations in two cycles, 5 minutes apart
TwoCyclesDone == now >= 5 /\ mon_pos > Len(ActiveStations)

\* C2: the monitoring loop creates no alert while an active alert of the
\* same type for the same station, created within the previous 2 hours,
\* exists; two consecutive cycles that see the same readings leave one alert
\* of that type for that station.
C2_NoDuplicateAlert ==
    /\ \A i, j \in DOMAIN alerts : ~DuplicateOf(i, j)
    /\ \A st \in DOMAIN stations, alert_type \in {"tide", "wave", "storm"} :
          (/\ TwoCyclesDone
           /\ Triggers(alert_type, st)
           /\ ReadingTime(alert_type, st) <= now - 5) =>
              Cardinality(ActiveAlertsFor(alert_type, st)) = 1

-----------------------------------------------------------------------------
(* Notifying many users                                                    *)

MaxUsers == 21

\* 0 to MaxUsers subscribers who all live 2 km from Miami
NotifyInit ==
    /\ now = 0
    /\ users \in {[uid \in 1..n |-> NearSubscriber] : n \in 0..MaxUsers}
    /\ alerts = <<>>
    /\ history = <<>>
    /\ notifications = <<>>
    /\ metrics = <<>>
    /\ result = NoResult

\* a direct call of create_alert for a tide alert at Miami
NotifyCreate ==
    /\ alerts = <<>>
    /\ \E alert_data \in {d \in ApiAlertData :
                             /\ d.alert_type = "tide"
                             /\ d.location.name = "Miami"
                             /\ d.values["tide_level"] = 260} :
          CreateAlert(alert_data, "api")
    /\ UNCHANGED <<now, users, history>>
    /\ UNCHANGED <<sevVars, monVars, taskVars, httpVars, authVars, manualVars>>

-----------------------------------------------------------------------------
(* C3: batches of notifications                                            *)

\* C3: for an alert with n affected users, _send_alert_notifications hands
\* every user id to send_bulk_alert exactly once, in consecutive batches of
\* at most 10 users, and the totals it returns add up to n (0 and 0 when
\* n = 0).
C3_BatchesCoverUsers ==
    result.op = "create_alert" =>
        LET n == Len(result.affected_users) IN
        /\ Flatten(result.batches) = result.affected_users
        /\ \A b \in DOMAIN result.batches :
              Len(result.batches[b]) >= 1 /\ Len(result.batches[b]) <= 10
        /\ result.successful + result.failed = n
        /\ n = 0 => result.successful = 0 /\ result.failed = 0

\* 21 users went out in three batches, one of which raised, and were counted
C3_Witness ==
    /\ result.op = "create_alert"
    /\ Len(result.affected_users) = 21
    /\ Len(result.batches) = 3
    /\ Len(result.batches[3]) = 1
    /\ result.failed = 10
    /\ result.successful = 11

-----------------------------------------------------------------------------
(* C4: no retry                                                            *)

-----------------------------------------------------------------------------
(* C16: one user's failure and the rest of the fan-out                     *)

\* the notification rows of the alert the last create_alert stored
RowsOfResult == {i \in DOMAIN notifications :
                    notifications[i].alert_id = result.alert_id}
SentRowsOfResult == {i \in RowsOfResult : notifications[i].status = "sent"}

\* the alert is stored, and every affected user was handed to
\* send_bulk_alert and, unless the user's own send did not deliver, got a
\* row with status 'sent'
C16_OthersAttempted ==
    (result.op = "create_alert" /\ result.success) =>
        /\ result.alert_id \in DOMAIN alerts
        /\ alerts[result.alert_id].id = result.alert_id
        /\ Flatten(result.batches) = result.affected_users
        /\ Cardinality(SentRowsOfResult)
              >= Len(result.affected_users) - MaxFailures

-----------------------------------------------------------------------------
(* Starting and stopping the monitoring loop                               *)

MaxTasks == 3

\* a task create_task has not made yet
NoTask == [status |-> "unused", must_cancel |-> FALSE, ended |-> "no"]

\* AlertService.__init__: active_monitoring = False, monitoring_task = None
TasksInit ==
    /\ active_monitoring = FALSE
    /\ monitoring_task = None
    /\ tasks = [t \in 1..MaxTasks |-> NoTask]
    /\ stop_awaits = {}
    /\ monitoring_result = [op |-> "none", success |-> FALSE, error |-> ""]

\* Task.cancel() without effect
cancel_ignored(ts, t) == ts

\* Task.cancel(): a task that is not done gets CancelledError at the await
\* it is suspended in, or before its first step
cancel(ts, t) ==
    IF ts[t].status = "done" THEN ts ELSE [ts EXCEPT ![t].must_cancel = TRUE]

\* AlertService.start_real_time_monitoring
StartMonitoring ==
    /\ IF active_monitoring
       THEN /\ monitoring_result' = [op |-> "start", success |-> FALSE,
                                     error |-> "Monitoring already active"]
            /\ UNCHANGED <<active_monitoring, monitoring_task, tasks>>
       ELSE /\ \E t \in 1..MaxTasks :
                 /\ tasks[t].status = "unused"
                 /\ \A u \in 1..MaxTasks : u < t => tasks[u].status # "unused"
                 /\ tasks' = [tasks EXCEPT ![t].status = "pending"]
                 /\ monitoring_task' = t
            /\ active_monitoring' = TRUE
            /\ monitoring_result' = [op |-> "start", success |-> TRUE, error |-> ""]
    /\ UNCHANGED stop_awaits
    /\ UNCHANGED <<sevVars, dbVars, monVars, httpVars, authVars, manualVars>>

\* AlertService.stop_real_time_monitoring up to its await of the task; a
\* task that is done is awaited without suspending
StopMonitoring ==
    /\ IF ~active_monitoring
       THEN /\ monitoring_result' = [op |-> "stop", success |-> FALSE,
                                     error |-> "Monitoring not active"]
            /\ UNCHANGED <<active_monitoring, tasks, stop_awaits>>
       ELSE /\ active_monitoring' = FALSE
            /\ IF monitoring_task # None
               THEN /\ tasks' = cancel(tasks, monitoring_task)
                    /\ IF tasks[monitoring_task].status = "done"
                       THEN /\ stop_awaits' = stop_awaits
                            /\ monitoring_result' =
                                   [op |-> "stop", success |-> TRUE, error |-> ""]
                       ELSE /\ stop_awaits' = stop_awaits \cup {monitoring_task}
                            /\ UNCHANGED monitoring_result
               ELSE /\ monitoring_result' =
                           [op |-> "stop", success |-> TRUE, error |-> ""]
                    /\ UNCHANGED <<tasks, stop_awaits>>
    /\ UNCHANGED monitoring_task
    /\ UNCHANGED <<sevVars, dbVars, monVars, httpVars, authVars, manualVars>>

\* stop_real_time_monitoring after its await: the task has ended, by
\* returning or cancelled, and the call returns success
StopMonitoringReturns ==
    /\ \E t \in stop_awaits :
          /\ tasks[t].status = "done"
          /\ stop_awaits' = stop_awaits \ {t}
    /\ monitoring_result' = [op |-> "stop", success |-> TRUE, error |-> ""]
    /\ UNCHANGED <<active_monitoring, monitoring_task, tasks>>
    /\ UNCHANGED <<sevVars, dbVars, monVars, httpVars, authVars, manualVars>>

\* where a cycle of _monitor_environmental_conditions suspends next: in an
\* await of its work, in the sleep of 300 s, or, after an error, in the
\* sleep of 60 s of the except clause
CycleSuspensions == {"in_cycle", "sleeping", "retry_sleeping"}

\* the loop's while statement: leave when active_monitoring is False, else
\* run a cycle up to its next suspension
LoopTop(t) ==
    IF ~active_monitoring
    THEN tasks' = [tasks EXCEPT ![t].status = "done", ![t].ended = "returned"]
    ELSE \E next \in CycleSuspensions : tasks' = [tasks EXCEPT ![t].status = next]

\* the event loop resumes task t. CancelledError raised in the try block is
\* caught and breaks the loop; raised in the except clause's sleep, or
\* before the first step, it ends the task as cancelled.
TaskStep ==
    /\ \E t \in 1..MaxTasks :
          /\ tasks[t].status \in {"pending"} \cup CycleSuspensions
          /\ IF tasks[t].must_cancel
             THEN tasks' = [tasks EXCEPT
                              ![t].status = "done",
                              ![t].ended =
                                  IF tasks[t].status \in {"pending", "retry_sleeping"}
                                  THEN "cancelled" ELSE "returned"]
             ELSE IF tasks[t].status = "in_cycle"
             THEN \E next \in CycleSuspensions :
                      tasks' = [tasks EXCEPT ![t].status = next]
             ELSE LoopTop(t)
    /\ UNCHANGED <<active_monitoring, monitoring_task, stop_awaits,
                   monitoring_result>>
    /\ UNCHANGED <<sevVars, dbVars, monVars, httpVars, authVars, manualVars>>

TasksIdle ==
    /\ active_monitoring = FALSE
    /\ monitoring_task = None
    /\ tasks = <<>>
    /\ stop_awaits = {}
    /\ monitoring_result = [op |-> "none", success |-> FALSE, error |-> ""]

-----------------------------------------------------------------------------
(* C9: one monitoring loop                                                 *)

\* task t can still run a monitoring cycle: it has not ended and no
\* cancellation is on its way to it
LoopRunning(t) ==
    /\ tasks[t].status \in {"pending"} \cup CycleSuspensions
    /\ ~tasks[t].must_cancel

\* C9: in every reachable state at most one monitoring loop is running,
\* whatever the interleaving of start and stop calls, also when a start is
\* issued while a stop still awaits the cancelled loop task.
C9_OneLoopRunning ==
    Cardinality({t \in DOMAIN tasks : LoopRunning(t)}) <= 1

\* a stop still awaits the cancelled old task while a newly started loop runs
C9_Witness ==
    \E old, new \in DOMAIN tasks :
        /\ old # new
        /\ old \in stop_awaits
        /\ tasks[old].must_cancel
        /\ tasks[old].status \in CycleSuspensions
        /\ monitoring_task = new
        /\ active_monitoring
        /\ LoopRunning(new)
        /\ tasks[new].status \in CycleSuspensions

-----------------------------------------------------------------------------
(* The routers and the dependency that authenticates                       *)

\* every @router endpoint: whether its signature has
\* Depends(get_current_user_dependency), whether HTTPBearer guards it, and
\* whether its handler writes to the database, a service or Supabase
Endpoints ==
    {
      [router |-> "alerts", handler |-> "get_alerts", depends_user |-> TRUE,
       bearer |-> TRUE, mutates |-> FALSE],
      [router |-> "alerts", handler |-> "get_alert", depends_user |-> TRUE,
       bearer |-> TRUE, mutates |-> FALSE],
      [router |-> "alerts", handler |-> "acknowledge_alert", depends_user |-> TRUE,
       bearer |-> TRUE, mutates |-> FALSE],
      [router |-> "alerts", handler |-> "get_alert_history", depends_user |-> TRUE,
       bearer |-> TRUE, mutates |-> FALSE],
      [router |-> "alerts", handler |-> "start_monitoring", depends_user |-> TRUE,
       bearer |-> TRUE, mutates |-> FALSE],
      [router |-> "alerts", handler |-> "stop_monitoring", depends_user |-> TRUE,
       bearer |-> TRUE, mutates |-> FALSE],
      [router |-> "alerts", handler |-> "get_monitoring_status", depends_user |-> TRUE,
       bearer |-> TRUE, mutates |-> FALSE],
      [router |-> "alerts", handler |-> "trigger_manual_check", depends_user |-> TRUE,
       bearer |-> TRUE, mutates |-> FALSE],
      [router |-> "alerts", handler |-> "get_alert_statistics", depends_user |-> TRUE,
       bearer |-> TRUE, mutates |-> FALSE],
      [router |-> "alerts", handler |-> "get_active_alerts", depends_user |-> TRUE,
       bearer |-> TRUE, mutates |-> FALSE],
      [router |-> "auth", handler |-> "register_user", depends_user |-> FALSE,
       bearer |-> FALSE, mutates |-> TRUE],
      [router |-> "auth", handler |-> "login_user", depends_user |-> FALSE,
       bearer |-> FALSE, mutates |-> TRUE],
      [router |-> "auth", handler |-> "logout_user", depends_user |-> FALSE,
       bearer |-> TRUE, mutates |-> TRUE],
      [router |-> "auth", handler |-> "get_current_user", depends_user |-> FALSE,
       bearer |-> TRUE, mutates |-> FALSE],
      [router |-> "auth", handler |-> "refresh_token", depends_user |-> FALSE,
       bearer |-> FALSE, mutates |-> TRUE],
      [router |-> "auth", handler |-> "set_user_location", depends_user |-> FALSE,
       bearer |-> TRUE, mutates |-> TRUE],
      [router |-> "dashboard", handler |-> "get_monitoring_stations", depends_user |-> TRUE,
       bearer |-> TRUE, mutates |-> FALSE],
      [router |-> "dashboard", handler |-> "get_station_tide_data", depends_user |-> TRUE,
       bearer |-> TRUE, mutates |-> FALSE],
      [router |-> "dashboard", handler |-> "get_weather_data", depends_user |-> TRUE,
       bearer |-> TRUE, mutates |-> FALSE],
      [router |-> "dashboard", handler |-> "get_dashboard_summary", depends_user |-> TRUE,
       bearer |-> TRUE, mutates |-> FALSE],
      [router |-> "dashboard", handler |-> "get_historical_data", depends_user |-> TRUE,
       bearer |-> TRUE, mutates |-> FALSE],
      [router |-> "dashboard", handler |-> "get_real_time_updates", depends_user |-> TRUE,
       bearer |-> TRUE, mutates |-> FALSE],
      [router |-> "environmental", handler |-> "get_current_environmental_data", depends_user |-> TRUE,
       bearer |-> TRUE, mutates |-> TRUE],
      [router |-> "environmental", handler |-> "get_historical_environmental_data", depends_user |-> TRUE,
       bearer |-> TRUE, mutates |-> FALSE],
      [router |-> "environmental", handler |-> "get_environmental_trends", depends_user |-> TRUE,
       bearer |-> TRUE, mutates |-> FALSE],
      [router |-> "environmental", handler |-> "get_current_satellite_data", depends_user |-> TRUE,
       bearer |-> TRUE, mutates |-> FALSE],
      [router |-> "environmental", handler |-> "get_current_weather_data", depends_user |-> TRUE,
       bearer |-> TRUE, mutates |-> FALSE],
      [router |-> "environmental", handler |-> "get_current_ocean_data", depends_user |-> TRUE,
       bearer |-> TRUE, mutates |-> FALSE],
      [router |-> "environmental", handler |-> "get_data_quality_report", depends_user |-> TRUE,
       bearer |-> TRUE, mutates |-> FALSE],
      [router |-> "environmental", handler |-> "trigger_data_collection", depends_user |-> TRUE,
       bearer |-> TRUE, mutates |-> TRUE],
      [router |-> "environmental", handler |-> "get_environmental_summary", depends_user |-> TRUE,
       bearer |-> TRUE, mutates |-> TRUE],
      [router |-> "environmental", handler |-> "get_station_status", depends_user |-> TRUE,
       bearer |-> TRUE, mutates |-> TRUE],
      [router |-> "forecasting", handler |-> "get_flood_risk_forecast", depends_user |-> TRUE,
       bearer |-> TRUE, mutates |-> FALSE],
      [router |-> "forecasting", handler |-> "get_advanced_flood_prediction", depends_user |-> TRUE,
       bearer |-> TRUE, mutates |-> FALSE],
      [router |-> "forecasting", handler |-> "get_tide_forecast", depends_user |-> TRUE,
       bearer |-> TRUE, mutates |-> FALSE],
      [router |-> "forecasting", handler |-> "get_storm_surge_forecast", depends_user |-> TRUE,
       bearer |-> TRUE, mutates |-> FALSE],
      [router |-> "forecasting", handler |-> "get_wave_height_forecast", depends_user |-> TRUE,
       bearer |-> TRUE, mutates |-> FALSE],
      [router |-> "forecasting", handler |-> "retrain_forecasting_model", depends_user |-> TRUE,
       bearer |-> TRUE, mutates |-> TRUE],
      [router |-> "forecasting", handler |-> "train_flood_model_with_data", depends_user |-> TRUE,
       bearer |-> TRUE, mutates |-> TRUE],
      [router |-> "forecasting", handler |-> "get_model_performance", depends_user |-> TRUE,
       bearer |-> TRUE, mutates |-> FALSE],
      [router |-> "monitoring", handler |-> "get_coastal_erosion_data", depends_user |-> TRUE,
       bearer |-> TRUE, mutates |-> FALSE],
      [router |-> "monitoring", handler |-> "get_algal_bloom_data", depends_user |-> TRUE,
       bearer |-> TRUE, mutates |-> FALSE],
      [router |-> "monitoring", handler |-> "get_water_quality_data", depends_user |-> TRUE,
       bearer |-> TRUE, mutates |-> FALSE],
      [router |-> "monitoring", handler |-> "get_satellite_imagery_analysis", depends_user |-> TRUE,
       bearer |-> TRUE, mutates |-> FALSE],
      [router |-> "monitoring", handler |-> "get_environmental_summary", depends_user |-> TRUE,
       bearer |-> TRUE, mutates |-> FALSE],
      [router |-> "notifications", handler |-> "get_notification_preferences", depends_user |-> TRUE,
       bearer |-> TRUE, mutates |-> FALSE],
      [router |-> "notifications", handler |-> "update_notification_preferences", depends_user |-> TRUE,
       bearer |-> TRUE, mutates |-> TRUE],
      [router |-> "notifications", handler |-> "test_notification", depends_user |-> TRUE,
       bearer |-> TRUE, mutates |-> TRUE],
      [router |-> "notifications", handler |-> "get_notification_history", depends_user |-> TRUE,
       bearer |-> TRUE, mutates |-> FALSE],
      [router |-> "notifications", handler |-> "get_notification_stats", depends_user |-> TRUE,
       bearer |-> TRUE, mutates |-> FALSE],
      [router |-> "notifications", handler |-> "register_device_token", depends_user |-> TRUE,
       bearer |-> TRUE, mutates |-> TRUE]
    }

\* the routers main.py includes besides the auth router
ProtectedRouters ==
    {"alerts", "notifications", "forecasting", "monitoring", "environmental",
     "dashboard"}

\* what a request carries as credentials: no Authorization header; a token
\* set_session raises on; one get_user raises on; one for which get_user
\* returns no user; one of user 1
TokenKinds == {"absent", "malformed", "unknown", "no_user", "valid"}
RejectedTokens == {"malformed", "unknown", "no_user"}

\* get_current_user_dependency that also returns when get_user has no user
get_current_user_dependency_lenient(token) ==
    IF token \in {"malformed", "unknown"}
    THEN [status |-> 401, user |-> None]
    ELSE [status |-> 200, user |-> IF token = "valid" THEN 1 ELSE None]

\* get_current_user_dependency: every exception and a missing user end in
\* HTTPException(401)
get_current_user_dependency(token) ==
    IF token = "valid"
    THEN [status |-> 200, user |-> 1]
    ELSE [status |-> 401, user |-> None]

MaxWrites == 2

NoRequest ==
    [endpoint |-> [router |-> "none", handler |-> "none", depends_user |-> FALSE,
                   bearer |-> FALSE, mutates |-> FALSE],
     token |-> "absent", stage |-> "done", status |-> 0, current_user |-> None,
     handler_ran |-> FALSE, writes |-> 0]

HttpInit ==
    /\ supabase_ready \in BOOLEAN
    /\ request = NoRequest
    /\ app_version = 0

HttpIdle ==
    /\ supabase_ready = FALSE
    /\ request = NoRequest
    /\ app_version = 0

\* a request arrives for some endpoint with some credentials
ReceiveRequest ==
    /\ request.stage = "done"
    /\ app_version < MaxWrites
    /\ \E endpoint \in Endpoints, token \in TokenKinds :
          request' = [NoRequest EXCEPT !.endpoint = endpoint, !.token = token,
                                       !.stage = "received"]
    /\ UNCHANGED <<supabase_ready, app_version>>
    /\ UNCHANGED <<sevVars, dbVars, monVars, taskVars, authVars, manualVars>>

\* FastAPI solves the endpoint's dependencies: HTTPBearer answers 403
\* without credentials, get_supabase answers 500 without a client, and
\* get_current_user_dependency answers 401 or returns the user
SolveDependencies ==
    /\ request.stage = "received"
    /\ request' =
          IF request.endpoint.bearer /\ request.token = "absent"
          THEN [request EXCEPT !.stage = "done", !.status = 403]
          ELSE IF ~supabase_ready
          THEN [request EXCEPT !.stage = "done", !.status = 500]
          ELSE IF request.endpoint.depends_user
          THEN LET r == get_current_user_dependency(request.token)
               IN  IF r.status = 200
                   THEN [request EXCEPT !.stage = "solved", !.current_user = r.user]
                   ELSE [request EXCEPT !.stage = "done", !.status = r.status]
          ELSE [request EXCEPT !.stage = "solved"]
    /\ UNCHANGED <<supabase_ready, app_version>>
    /\ UNCHANGED <<sevVars, dbVars, monVars, taskVars, authVars, manualVars>>

\* the endpoint's handler runs and answers; a handler that writes changes
\* the application's state
RunHandler ==
    /\ request.stage = "solved"
    /\ \E status \in {200, 400, 500} :
          request' = [request EXCEPT
                        !.stage = "done", !.status = status,
                        !.handler_ran = TRUE,
                        !.writes = IF request.endpoint.mutates THEN 1 ELSE 0]
    /\ app_version' = IF request.endpoint.mutates THEN app_version + 1 ELSE app_version
    /\ UNCHANGED supabase_ready
    /\ UNCHANGED <<sevVars, dbVars, monVars, taskVars, authVars, manualVars>>

-----------------------------------------------------------------------------
(* C10: handlers run for authenticated requests only                       *)

\* C10: every endpoint of the alerts, notifications, forecasting,
\* monitoring, environmental and dashboard routers runs its handler only
\* after get_current_user_dependency has returned a user; a request whose
\* bearer token is rejected is answered with 401 and changes no state.
C10_HandlersNeedUser ==
    /\ \A e \in Endpoints : e.router \in ProtectedRouters => e.depends_user
    /\ request.endpoint.router \in ProtectedRouters =>
          /\ request.handler_ran => request.current_user # None
          /\ (/\ request.token \in RejectedTokens
              /\ request.stage = "done"
              /\ supabase_ready)
                 => /\ request.status = 401
                    /\ ~request.handler_ran
                    /\ request.writes = 0

\* a request with a rejected token for an endpoint that writes was answered
\* 401 after another request had been served and had written
C10_Witness ==
    /\ request.endpoint.router = "notifications"
    /\ request.endpoint.handler = "update_notification_preferences"
    /\ request.token = "no_user"
    /\ request.stage = "done"
    /\ request.status = 401
    /\ ~request.handler_ran
    /\ app_version = 1

-----------------------------------------------------------------------------
(* C7, C8: acknowledging and resolving                                     *)

\* the history records of one action on one alert
HistoryOf(alert_id, action) ==
    {i \in DOMAIN history :
        history[i].alert_id = alert_id /\ history[i].action = action}

\* a step that is a call of acknowledge_alert has the specified outcome
C7_AcknowledgeStep ==
    result'.op = "acknowledge_alert" =>
        LET id == result'.alert_id IN
        IF id \notin DOMAIN alerts
        THEN /\ ~result'.success /\ result'.error = "Alert not found"
             /\ alerts' = alerts /\ history' = history
        ELSE IF alerts[id].acknowledged_at # None
        THEN /\ ~result'.success /\ result'.error = "Alert already acknowledged"
             /\ alerts' = alerts /\ history' = history
        ELSE /\ result'.success
             /\ alerts'[id].acknowledged_at = now
             /\ alerts'[id].acknowledged_by = result'.user_id
             /\ \A a \in DOMAIN alerts : a # id => alerts'[a] = alerts[a]
             /\ Len(history') = Len(history) + 1
             /\ SubSeq(history', 1, Len(history)) = history
             /\ history'[Len(history')].alert_id = id
             /\ history'[Len(history')].action = "acknowledged"

\* an alert has one 'acknowledged' record if it is acknowledged, else none
C7_OneAcknowledgement ==
    \A id \in DOMAIN alerts :
        Cardinality(HistoryOf(id, "acknowledged")) =
            IF alerts[id].acknowledged_at # None THEN 1 ELSE 0

C8_ResolveStep ==
    result'.op = "resolve_alert" =>
        LET id == result'.alert_id IN
        IF id \notin DOMAIN alerts
        THEN /\ ~result'.success /\ result'.error = "Alert not found"
             /\ alerts' = alerts /\ history' = history
        ELSE IF alerts[id].resolved_at # None
        THEN /\ ~result'.success /\ result'.error = "Alert already resolved"
             /\ alerts' = alerts /\ history' = history
        ELSE /\ result'.success
             /\ alerts'[id].resolved_at = now
             /\ alerts'[id].resolved_by = result'.user_id
             /\ ~alerts'[id].is_active
             /\ \A a \in DOMAIN alerts : a # id => alerts'[a] = alerts[a]
             /\ Len(history') = Len(history) + 1
             /\ SubSeq(history', 1, Len(history)) = history
             /\ history'[Len(history')].alert_id = id
             /\ history'[Len(history')].action = "resolved"

\* an alert has one 'resolved' record if it is resolved, else none; it is
\* active exactly as long as it is not resolved
C8_OneResolution ==
    \A id \in DOMAIN alerts :
        /\ Cardinality(HistoryOf(id, "resolved")) =
               IF alerts[id].resolved_at # None THEN 1 ELSE 0
        /\ alerts[id].is_active <=> alerts[id].resolved_at = None

-----------------------------------------------------------------------------
(* Authentication service: users, sessions and tokens                      *)
(* (backend/app/services/auth_service.py).  Times are in minutes.          *)

\* AuthService.__init__
refresh_token_expire_days == 30

\* settings.access_token_expire_minutes
access_token_expire_minutes == 30

MinutesPerDay == 24 * 60

\* the key a token is signed with: the service's own or somebody else's
jwt_secret == "jwt_secret_key"

NoToken == [sub |-> "", type |-> "none", exp |-> 0, jti |-> 0, key |-> ""]

\* AuthService._create_access_token at time t
_create_access_token(user_id, t) ==
    [sub |-> user_id, type |-> "access", exp |-> t + access_token_expire_minutes,
     jti |-> 0, key |-> jwt_secret]

\* AuthService._create_refresh_token at time t; jti is the fresh
\* secrets.token_urlsafe(32) value
_create_refresh_token(user_id, t, jti) ==
    [sub |-> user_id, type |-> "refresh",
     exp |-> t + refresh_token_expire_days * MinutesPerDay,
     jti |-> jti, key |-> jwt_secret]

\* jwt.decode(token, self.jwt_secret, algorithms=[...]) at time t: the
\* signature is verified first, then the exp entry
jwt_decode(token, t) ==
    IF token.key # jwt_secret THEN "InvalidTokenError"
    ELSE IF token.exp <= t THEN "ExpiredSignatureError"
    ELSE "payload"

\* supabase_response.user is None
NoSupabaseUser == "None"

\* bcrypt.hashpw(password, bcrypt.gensalt())
hashpw(password) == <<"bcrypt", password>>

\* bcrypt.checkpw(password, hashed)
checkpw(password, hashed) == hashed = <<"bcrypt", password>>

\* the three tables of the local database the service works on
AuthDb == [users |-> auth_users, preferences |-> user_preferences,
           sessions |-> user_sessions]

AuthFail(op, error) ==
    [op |-> op, success |-> FALSE, error |-> error, user_id |-> "",
     access_token |-> NoToken, refresh_token |-> NoToken]

AuthOk(op, user_id, access, refresh) ==
    [op |-> op, success |-> TRUE, error |-> "", user_id |-> user_id,
     access_token |-> access, refresh_token |-> refresh]

\* db.query(User).filter(User.email == email).first(), as a set of 0 or 1 rows
UsersByEmail(db, email) ==
    {i \in DOMAIN db.users : db.users[i].email = email}

\* db.query(User).filter(User.id == user_id).first()
UsersById(db, user_id) ==
    {i \in DOMAIN db.users : db.users[i].id = user_id}

\* UserSession(...) as the service fills it in; is_active takes the column's
\* default where the service leaves it out
NewSession(user_id, token, t) ==
    [user_id |-> user_id, session_token |-> token,
     expires_at |-> t + refresh_token_expire_days * MinutesPerDay,
     created_at |-> t, is_active |-> TRUE, logged_out_at |-> None,
     last_used |-> None]

\* AuthService.register_user, register without the look-up of the email
register_user_unchecked(db, t, jti, user_data, supabase_response) ==
    IF supabase_response.raises THEN
        [db |-> db,
         ret |-> AuthFail("register_user", "Registration failed. Please try again.")]
    ELSE IF supabase_response.user = NoSupabaseUser THEN
        [db |-> db, ret |-> AuthFail("register_user", "Failed to create user account")]
    ELSE IF UsersById(db, supabase_response.user) # {} THEN
        [db |-> db,
         ret |-> AuthFail("register_user", "Registration failed. Please try again.")]
    ELSE
        LET new_user == [id |-> supabase_response.user,
                         email |-> user_data.email,
                         hashed_password |-> hashpw(user_data.password),
                         is_active |-> TRUE, last_login |-> None]
            preferences == [user_id |-> new_user.id]
            access_token == _create_access_token(new_user.id, t)
            new_refresh_token == _create_refresh_token(new_user.id, t, jti)
            session == NewSession(new_user.id, new_refresh_token, t)
        IN [db |-> [users |-> Append(db.users, new_user),
                    preferences |-> Append(db.preferences, preferences),
                    sessions |-> Append(db.sessions, session)],
            ret |-> AuthOk("register_user", new_user.id, access_token,
                           new_refresh_token)]

\* AuthService.register_user.  supabase_response is what sign_up does: it
\* raises, or returns a response whose user is None or has an id.  A commit
\* that would store a second row with the same primary key raises, and the
\* handler rolls back.
register_user(db, t, jti, user_data, supabase_response) ==
    IF UsersByEmail(db, user_data.email) # {} THEN
        [db |-> db,
         ret |-> AuthFail("register_user", "User with this email already exists")]
    ELSE IF supabase_response.raises THEN
        [db |-> db,
         ret |-> AuthFail("register_user", "Registration failed. Please try again.")]
    ELSE IF supabase_response.user = NoSupabaseUser THEN
        [db |-> db, ret |-> AuthFail("register_user", "Failed to create user account")]
    ELSE IF UsersById(db, supabase_response.user) # {} THEN
        [db |-> db,
         ret |-> AuthFail("register_user", "Registration failed. Please try again.")]
    ELSE
        LET new_user == [id |-> supabase_response.user,
                         email |-> user_data.email,
                         hashed_password |-> hashpw(user_data.password),
                         is_active |-> TRUE, last_login |-> None]
            preferences == [user_id |-> new_user.id]
            access_token == _create_access_token(new_user.id, t)
            new_refresh_token == _create_refresh_token(new_user.id, t, jti)
            session == NewSession(new_user.id, new_refresh_token, t)
        IN [db |-> [users |-> Append(db.users, new_user),
                    preferences |-> Append(db.preferences, preferences),
                    sessions |-> Append(db.sessions, session)],
            ret |-> AuthOk("register_user", new_user.id, access_token,
                           new_refresh_token)]

\* the query .filter(user_id == ..., is_active == True).update(values)
UpdateActiveSessions(sessions, user_id, values) ==
    [i \in DOMAIN sessions |->
        IF sessions[i].user_id = user_id /\ sessions[i].is_active
        THEN values @@ sessions[i]
        ELSE sessions[i]]

\* AuthService.login_user that leaves the user's earlier sessions as they are
login_user_keeps_sessions(db, t, jti, login_data, supabase_response) ==
    LET found == UsersByEmail(db, login_data.email) IN
    IF supabase_response.raises THEN
        [db |-> db, ret |-> AuthFail("login_user", "Login failed. Please try again.")]
    ELSE IF supabase_response.user = NoSupabaseUser THEN
        [db |-> db, ret |-> AuthFail("login_user", "Invalid email or password")]
    ELSE IF found = {} THEN
        [db |-> db, ret |-> AuthFail("login_user", "User not found in local database")]
    ELSE
        LET i == CHOOSE k \in found : \A m \in found : k <= m
            user == db.users[i]
        IN
        IF ~user.is_active THEN
            [db |-> db, ret |-> AuthFail("login_user", "Account is deactivated")]
        ELSE IF ~checkpw(login_data.password, user.hashed_password) THEN
            [db |-> db, ret |-> AuthFail("login_user", "Invalid email or password")]
        ELSE
            LET access_token == _create_access_token(user.id, t)
                new_refresh_token == _create_refresh_token(user.id, t, jti)
                new_session == NewSession(user.id, new_refresh_token, t)
            IN [db |-> [db EXCEPT
                          !.users[i].last_login = t,
                          !.sessions = Append(db.sessions, new_session)],
                ret |-> AuthOk("login_user", user.id, access_token,
                               new_refresh_token)]

\* AuthService.login_user.  supabase_response is what sign_in_with_password
\* does: it raises, or returns a response whose user is None or has an id.
login_user(db, t, jti, login_data, supabase_response) ==
    LET found == UsersByEmail(db, login_data.email) IN
    IF supabase_response.raises THEN
        [db |-> db, ret |-> AuthFail("login_user", "Login failed. Please try again.")]
    ELSE IF supabase_response.user = NoSupabaseUser THEN
        [db |-> db, ret |-> AuthFail("login_user", "Invalid email or password")]
    ELSE IF found = {} THEN
        [db |-> db, ret |-> AuthFail("login_user", "User not found in local database")]
    ELSE
        LET i == CHOOSE k \in found : \A m \in found : k <= m
            user == db.users[i]
        IN
        IF ~user.is_active THEN
            [db |-> db, ret |-> AuthFail("login_user", "Account is deactivated")]
        ELSE IF ~checkpw(login_data.password, user.hashed_password) THEN
            [db |-> db, ret |-> AuthFail("login_user", "Invalid email or password")]
        ELSE
            LET access_token == _create_access_token(user.id, t)
                new_refresh_token == _create_refresh_token(user.id, t, jti)
                invalidated == UpdateActiveSessions(db.sessions, user.id,
                                                    [is_active |-> FALSE])
                new_session == NewSession(user.id, new_refresh_token, t)
            IN [db |-> [db EXCEPT
                          !.users[i].last_login = t,
                          !.sessions = Append(invalidated, new_session)],
                ret |-> AuthOk("login_user", user.id, access_token,
                               new_refresh_token)]

\* the rows of the session query of logout_user
ActiveSessionsWith(db, user_id, session_token) ==
    {i \in DOMAIN db.sessions :
        /\ db.sessions[i].user_id = user_id
        /\ db.sessions[i].session_token = session_token
        /\ db.sessions[i].is_active}

\* AuthService.logout_user; sign_out_raises is what supabase.auth.sign_out does
logout_user(db, t, user_id, session_token, sign_out_raises) ==
    LET found == ActiveSessionsWith(db, user_id, session_token) IN
    IF sign_out_raises THEN
        [db |-> db, ret |-> AuthFail("logout_user", "Logout failed")]
    ELSE IF found = {} THEN
        [db |-> db, ret |-> AuthOk("logout_user", user_id, NoToken, NoToken)]
    ELSE
        LET i == CHOOSE k \in found : \A m \in found : k <= m IN
        [db |-> [db EXCEPT !.sessions[i].is_active = FALSE,
                           !.sessions[i].logged_out_at = t],
         ret |-> AuthOk("logout_user", user_id, NoToken, NoToken)]

\* the rows of the session query of refresh_token
LiveSessionsWith(db, t, user_id, session_token) ==
    {i \in ActiveSessionsWith(db, user_id, session_token) :
        db.sessions[i].expires_at > t}

\* AuthService.refresh_token that does not look the session up
refresh_token_sessionless(db, t, token) ==
    IF jwt_decode(token, t) = "ExpiredSignatureError" THEN
        [db |-> db, ret |-> AuthFail("refresh_token", "Refresh token expired")]
    ELSE IF jwt_decode(token, t) = "InvalidTokenError" THEN
        [db |-> db, ret |-> AuthFail("refresh_token", "Invalid refresh token")]
    ELSE IF token.type # "refresh" THEN
        [db |-> db, ret |-> AuthFail("refresh_token", "Invalid token type")]
    ELSE
        LET user_id == token.sub
            owners == UsersById(db, user_id)
        IN
        IF owners = {} \/ \E u \in owners : ~db.users[u].is_active THEN
            [db |-> db,
             ret |-> AuthFail("refresh_token", "User not found or inactive")]
        ELSE
            [db |-> db,
             ret |-> AuthOk("refresh_token", user_id,
                            _create_access_token(user_id, t), token)]

\* AuthService.refresh_token
refresh_token(db, t, token) ==
    IF jwt_decode(token, t) = "ExpiredSignatureError" THEN
        [db |-> db, ret |-> AuthFail("refresh_token", "Refresh token expired")]
    ELSE IF jwt_decode(token, t) = "InvalidTokenError" THEN
        [db |-> db, ret |-> AuthFail("refresh_token", "Invalid refresh token")]
    ELSE IF token.type # "refresh" THEN
        [db |-> db, ret |-> AuthFail("refresh_token", "Invalid token type")]
    ELSE
        LET user_id == token.sub
            found == LiveSessionsWith(db, t, user_id, token)
            owners == UsersById(db, user_id)
        IN
        IF found = {} THEN
            [db |-> db,
             ret |-> AuthFail("refresh_token", "Invalid or expired refresh token")]
        ELSE IF owners = {} \/ \E u \in owners : ~db.users[u].is_active THEN
            [db |-> db,
             ret |-> AuthFail("refresh_token", "User not found or inactive")]
        ELSE
            LET i == CHOOSE k \in found : \A m \in found : k <= m IN
            [db |-> [db EXCEPT !.sessions[i].last_used = t],
             ret |-> AuthOk("refresh_token", user_id,
                            _create_access_token(user_id, t), token)]

\* AuthService.revoke_all_sessions
revoke_all_sessions(db, t, user_id) ==
    [db |-> [db EXCEPT !.sessions =
                UpdateActiveSessions(db.sessions, user_id,
                                     [is_active |-> FALSE, logged_out_at |-> t])],
     ret |-> AuthOk("revoke_all_sessions", user_id, NoToken, NoToken)]

MaxSessions == 2
MaxAuthTime == 1

Emails == {"a@ctas", "b@ctas"}
Passwords == {"pw1", "pw2"}
SupabaseIds == {"u1", "u2"}

\* what sign_up and sign_in_with_password can do
SupabaseResponses ==
    {[raises |-> TRUE, user |-> NoSupabaseUser],
     [raises |-> FALSE, user |-> NoSupabaseUser]}
        \cup {[raises |-> FALSE, user |-> id] : id \in SupabaseIds}

\* an account that was deactivated while its session was open
SeedUser == [id |-> "u0", email |-> "c@ctas", hashed_password |-> hashpw("pw1"),
             is_active |-> FALSE, last_login |-> None]
SeedSession == NewSession("u0", _create_refresh_token("u0", 0, 1), 0)

NoAuthCall == [op |-> "none", user_id |-> "", email |-> "", token |-> NoToken]

AuthIdle ==
    /\ auth_now = 0
    /\ auth_users = <<>>
    /\ user_preferences = <<>>
    /\ user_sessions = <<>>
    /\ auth_call = NoAuthCall
    /\ auth_result = AuthFail("none", "")

AuthInit ==
    /\ auth_now = 0
    /\ \/ /\ auth_users = <<>>
          /\ user_preferences = <<>>
          /\ user_sessions = <<>>
       \/ /\ auth_users = <<SeedUser>>
          /\ user_preferences = <<[user_id |-> "u0"]>>
          /\ user_sessions = <<SeedSession>>
    /\ auth_call = NoAuthCall
    /\ auth_result = AuthFail("none", "")

\* the service call returned out: the tables and the result it leaves
AuthReturn(out) ==
    /\ auth_users' = out.db.users
    /\ user_preferences' = out.db.preferences
    /\ user_sessions' = out.db.sessions
    /\ auth_result' = out.ret
    /\ UNCHANGED auth_now

UserIds == SupabaseIds \cup {"u0"}

\* the tokens a client can present: the ones the service issued, a copy of
\* one signed with another key, and a signed refresh token of no session
PresentedTokens ==
    LET issued == {user_sessions[i].session_token : i \in DOMAIN user_sessions}
    IN  issued
        \cup {[k EXCEPT !.key = "another key"] : k \in issued}
        \cup ({auth_result.access_token} \ {NoToken})
        \cup {_create_refresh_token(u, MaxAuthTime * refresh_token_expire_days * MinutesPerDay, 0) :
                u \in {"u1"}}

RegisterUser ==
    /\ Len(user_sessions) < MaxSessions
    /\ \E user_data \in [email : Emails \cup {"c@ctas"}, password : {"pw1"}],
          supabase_response \in SupabaseResponses :
          /\ AuthReturn(register_user(AuthDb, auth_now, Len(user_sessions) + 1,
                                      user_data, supabase_response))
          /\ auth_call' = [op |-> "register_user", user_id |-> "",
                           email |-> user_data.email, token |-> NoToken]
    /\ UNCHANGED <<sevVars, dbVars, monVars, taskVars, httpVars, manualVars>>

LoginUser ==
    /\ Len(user_sessions) < MaxSessions
    /\ \E login_data \in [email : Emails \cup {"c@ctas"}, password : Passwords],
          supabase_response \in SupabaseResponses :
          /\ AuthReturn(login_user(AuthDb, auth_now, Len(user_sessions) + 1,
                                   login_data, supabase_response))
          /\ auth_call' = [op |-> "login_user", user_id |-> "",
                           email |-> login_data.email, token |-> NoToken]
    /\ UNCHANGED <<sevVars, dbVars, monVars, taskVars, httpVars, manualVars>>

LogoutUser ==
    /\ \E user_id \in UserIds, session_token \in PresentedTokens,
          sign_out_raises \in BOOLEAN :
          /\ AuthReturn(logout_user(AuthDb, auth_now, user_id, session_token,
                                    sign_out_raises))
          /\ auth_call' = [op |-> "logout_user", user_id |-> user_id,
                           email |-> "", token |-> session_token]
    /\ UNCHANGED <<sevVars, dbVars, monVars, taskVars, httpVars, manualVars>>

RefreshToken ==
    /\ \E token \in PresentedTokens :
          /\ AuthReturn(refresh_token(AuthDb, auth_now, token))
          /\ auth_call' = [op |-> "refresh_token", user_id |-> "",
                           email |-> "", token |-> token]
    /\ UNCHANGED <<sevVars, dbVars, monVars, taskVars, httpVars, manualVars>>

RevokeAllSessions ==
    /\ \E user_id \in UserIds :
          /\ AuthReturn(revoke_all_sessions(AuthDb, auth_now, user_id))
          /\ auth_call' = [op |-> "revoke_all_sessions", user_id |-> user_id,
                           email |-> "", token |-> NoToken]
    /\ UNCHANGED <<sevVars, dbVars, monVars, taskVars, httpVars, manualVars>>

\* the lifetime of a refresh token passes
AuthTick ==
    /\ auth_now < MaxAuthTime * refresh_token_expire_days * MinutesPerDay
    /\ auth_now' = auth_now + refresh_token_expire_days * MinutesPerDay
    /\ UNCHANGED <<auth_users, user_preferences, user_sessions, auth_call,
                   auth_result>>
    /\ UNCHANGED <<sevVars, dbVars, monVars, taskVars, httpVars, manualVars>>

-----------------------------------------------------------------------------
(* C11, C12, C13: sessions, refresh tokens and registered emails           *)

ActiveSessionsOf(user_id) ==
    {i \in DOMAIN user_sessions :
        user_sessions[i].user_id = user_id /\ user_sessions[i].is_active}

\* C11: after any sequence of register_user, login_user, logout_user,
\* refresh_token and revoke_all_sessions calls a user has at most one active
\* session, and right after a successful login_user the user has exactly
\* one, the session that holds the refresh token the login returned.
C11_OneActiveSession ==
    /\ \A user_id \in UserIds : Cardinality(ActiveSessionsOf(user_id)) <= 1
    /\ (auth_call.op = "login_user" /\ auth_result.success) =>
          \E i \in DOMAIN user_sessions :
              /\ ActiveSessionsOf(auth_result.user_id) = {i}
              /\ user_sessions[i].session_token = auth_result.refresh_token

\* a login succeeded for a user whose earlier session it switched off
C11_Witness ==
    /\ auth_call.op = "login_user"
    /\ auth_result.success
    /\ \E i \in DOMAIN user_sessions :
          /\ user_sessions[i].user_id = auth_result.user_id
          /\ ~user_sessions[i].is_active
          /\ user_sessions[i].logged_out_at = None

IssuedTokens == {user_sessions[i].session_token : i \in DOMAIN user_sessions}

\* refresh_token would refuse the token now
Refused(token) == ~refresh_token(AuthDb, auth_now, token).ret.success

\* refresh_token would refuse the token after this step
RefusedAfter(token) == ~refresh_token(AuthDb', auth_now', token).ret.success

\* a call of the named operation returns in this step
AuthStep(op) == auth_call'.op = op /\ auth_now' = auth_now

\* a successful refresh found a live session of the token's user that holds
\* the token, and found the user active
C12_RefreshStep ==
    (AuthStep("refresh_token") /\ auth_result'.success) =>
        LET token == auth_call'.token IN
        /\ auth_result'.access_token = _create_access_token(token.sub, auth_now)
        /\ \E i \in DOMAIN user_sessions :
              /\ user_sessions[i].session_token = token
              /\ user_sessions[i].user_id = token.sub
              /\ user_sessions[i].is_active
              /\ user_sessions[i].expires_at > auth_now
        /\ \E j \in DOMAIN auth_users :
              auth_users[j].id = token.sub /\ auth_users[j].is_active

\* the logout of a token's user with that token leaves the token refused
C12_LogoutStep ==
    (/\ AuthStep("logout_user")
     /\ auth_result'.success
     /\ auth_call'.user_id = auth_call'.token.sub) => RefusedAfter(auth_call'.token)

\* revoking a user's sessions leaves every token of the user refused
C12_RevokeStep ==
    AuthStep("revoke_all_sessions") =>
        \A token \in IssuedTokens :
            token.sub = auth_call'.user_id => RefusedAfter(token)

\* a successful login leaves every earlier token of the user refused
C12_LoginStep ==
    (AuthStep("login_user") /\ auth_result'.success) =>
        \A token \in IssuedTokens :
            token.sub = auth_result'.user_id => RefusedAfter(token)

\* a refused token is refused ever after
C12_StaysRefused == \A token \in IssuedTokens : Refused(token) => RefusedAfter(token)

\* C12: refresh_token returns a new access token only when an active
\* session that holds the refresh token, with expires_at in the future,
\* exists for the token's user and that user exists and is active; so a
\* token is refused after its user logged out with it, after
\* revoke_all_sessions for its user, and after a later successful login of
\* the same user.
C12_RefreshNeedsLiveSession ==
    [][/\ C12_RefreshStep
       /\ C12_LogoutStep
       /\ C12_RevokeStep
       /\ C12_LoginStep
       /\ C12_StaysRefused]_vars

\* a refresh was refused for a token whose session had been switched off
C12_Witness ==
    /\ auth_call.op = "refresh_token"
    /\ ~auth_result.success
    /\ auth_result.error = "Invalid or expired refresh token"
    /\ \E i \in DOMAIN user_sessions :
          /\ user_sessions[i].session_token = auth_call.token
          /\ ~user_sessions[i].is_active
          /\ user_sessions[i].expires_at > auth_now

C13_NoSharedEmail ==
    \A i, j \in DOMAIN auth_users :
        auth_users[i].email = auth_users[j].email => i = j

\* registering an email a local user has is refused and stores nothing
C13_RegisterStep ==
    (/\ AuthStep("register_user")
     /\ \E i \in DOMAIN auth_users : auth_users[i].email = auth_call'.email) =>
        /\ ~auth_result'.success
        /\ auth_result'.error = "User with this email already exists"
        /\ UNCHANGED <<auth_users, user_preferences, user_sessions>>

\* C13: register_user with an email that already belongs to a local user
\* returns the error 'User with this email already exists' and adds no
\* user, preferences or session record; so no two local users ever share
\* an email.
C13_DuplicateEmailRefused == [](C13_NoSharedEmail) /\ [][C13_RegisterStep]_vars

\* a registration was refused because its email was taken
C13_Witness ==
    /\ auth_call.op = "register_user"
    /\ auth_result.error = "User with this email already exists"
    /\ \E i \in DOMAIN auth_users : auth_users[i].email = auth_call.email

-----------------------------------------------------------------------------
(* Specifications                                                          *)

InitSeverity == SevInit /\ DbIdle /\ MonIdle /\ TasksIdle /\ HttpIdle /\ AuthIdle /\ ManualIdle
NextSeverity ==
    \/ CalcSeverity /\ UNCHANGED <<dbVars, monVars, taskVars, httpVars, authVars, manualVars>>
    \/ NextSeverityCall /\ UNCHANGED <<dbVars, monVars, taskVars, httpVars, authVars, manualVars>>
SpecSeverity == InitSeverity /\ [][NextSeverity]_vars

InitUsers == UsersInit /\ SevIdle /\ MonIdle /\ TasksIdle /\ HttpIdle /\ AuthIdle /\ ManualIdle
NextUsers == CreateAlertApi
SpecUsers == InitUsers /\ [][NextUsers]_vars

InitLifecycle == LifecycleInit /\ SevIdle /\ MonIdle /\ TasksIdle /\ HttpIdle /\ AuthIdle /\ ManualIdle
NextLifecycle ==
    LifecycleCreate \/ AcknowledgeAlert \/ ResolveAlert \/ Tick
SpecLifecycle == InitLifecycle /\ [][NextLifecycle]_vars

InitMonitor == MonitorInit /\ SevIdle /\ TasksIdle /\ HttpIdle /\ AuthIdle /\ ManualIdle
NextMonitor ==
    \/ IngestTide \/ IngestWeather
    \/ MonitorNoData
    \/ MonitorFloodCheck \/ MonitorTideCheck \/ MonitorWaveCheck \/ MonitorStormCheck
    \/ MonitorCycleEnd
    \/ MonitorResolve
SpecMonitor == InitMonitor /\ [][NextMonitor]_vars

InitNotify == NotifyInit /\ SevIdle /\ MonIdle /\ TasksIdle /\ HttpIdle /\ AuthIdle /\ ManualIdle
NextNotify == NotifyCreate
SpecNotify == InitNotify /\ [][NextNotify]_vars

InitTasks == TasksInit /\ SevIdle /\ DbIdle /\ MonIdle /\ HttpIdle /\ AuthIdle /\ ManualIdle
NextTasks ==
    StartMonitoring \/ StopMonitoring \/ StopMonitoringReturns \/ TaskStep
SpecTasks == InitTasks /\ [][NextTasks]_vars

InitHttp == HttpInit /\ SevIdle /\ DbIdle /\ MonIdle /\ TasksIdle /\ AuthIdle /\ ManualIdle
NextHttp == ReceiveRequest \/ SolveDependencies \/ RunHandler
SpecHttp == InitHttp /\ [][NextHttp]_vars

InitAuth == AuthInit /\ SevIdle /\ DbIdle /\ MonIdle /\ TasksIdle /\ HttpIdle /\ ManualIdle
NextAuth ==
    \/ RegisterUser \/ LoginUser \/ LogoutUser \/ RefreshToken
    \/ RevokeAllSessions \/ AuthTick
SpecAuth == InitAuth /\ [][NextAuth]_vars

InitManual == ManualInit /\ SevIdle /\ TasksIdle /\ HttpIdle /\ AuthIdle
NextManual ==
    \/ ManualIngestTide \/ ManualIngestWeather
    \/ ManualStart \/ ManualNoData
    \/ ManualFloodCheck \/ ManualTideCheck \/ ManualWaveCheck \/ ManualStormCheck
    \/ ManualReturn
SpecManual == InitManual /\ [][NextManual]_vars

InitSystem == SystemInit /\ SevIdle /\ TasksIdle /\ HttpIdle /\ AuthIdle /\ ManualIdle
NextSystem ==
    SystemIngestTide \/ SystemWideCheck \/ SystemTick \/ SystemResolve
SpecSystem == InitSystem /\ [][NextSystem]_vars

Init == InitSeverity
Next == NextSeverity
Spec == Init /\ [][Next]_vars
=============================================================================
